---- MODULE Spec2Model ----
(***************************************************************************)
(* A model of the ascii-roguelike game core (src/qt_roguelike.py, the Qt   *)
(* front end, and src/roguelike.py, the curses front end).                 *)
(*                                                                         *)
(* The Game aggregate is one record g.  Every program function is an       *)
(* operator of the same name.  A function that draws random numbers is an  *)
(* operator that returns the SET of Game records it can return, one per    *)
(* outcome of its draws; the dice are drawn from the sets PlayerDraws and  *)
(* EnemyDraws, the map and spawn draws from the sets of draw sequences     *)
(* below.  Angles are kept in whole degrees (the code keeps                *)
(* radians in a float: every angle it produces is a multiple of 15         *)
(* degrees).  Distances are compared squared, in integers.                 *)
(***************************************************************************)
EXTENDS Integers, Sequences, FiniteSets, TLC

(***************************************************************************)
(* Bounds of the model.  The map and the spawn counts are scaled down from *)
(* the program's (60 x 28 cells, rooms of 4..9, 12 rooms, radius 8, 7      *)
(* potions, 12 monsters, a log of 160 / 120 lines).                        *)
(***************************************************************************)
MAP_W == 8
MAP_H == 6
FOV_RADIUS == 2
ROOM_MIN == 2
ROOM_MAX == 3
MAX_ROOMS == 2
LOG_MAX == 3
NumItems == 1
NumMobs == 4
MaxTurn == 4
MaxRot == 1

WALL == "#"
FLOOR == "."

Variants == {"qt", "curses"}

ATTRS == {"MU", "KL", "IN", "CH", "FF", "GE", "KO", "KK"}

RACE_DWARF == [a \in ATTRS |->
    CASE a = "KO" -> 2 [] a = "KK" -> 2 [] a = "GE" -> -1 [] a = "CH" -> -1
      [] OTHER -> 0]

PROF_SLAYER == [a \in ATTRS |->
    CASE a = "KK" -> 2 [] a = "MU" -> 1 [] OTHER -> 0]

\* The enemy templates; a key a template does not give takes the default
\* that spawn_mobs_items reads with t.get(key, default).
ENEMIES(kind) ==
    CASE kind = "goblin" -> [ch |-> "g", hp |-> 5, atk |-> 8, dmg |-> <<1, 2>>,
                             ai |-> "melee", speed |-> 1, regen |-> 0,
                             range |-> 0, prefer |-> 0, xp |-> 8]
      [] kind = "orc"    -> [ch |-> "o", hp |-> 10, atk |-> 10, dmg |-> <<2, 3>>,
                             ai |-> "melee", speed |-> 1, regen |-> 0,
                             range |-> 0, prefer |-> 0, xp |-> 14]
      [] kind = "wolf"   -> [ch |-> "w", hp |-> 6, atk |-> 9, dmg |-> <<1, 2>>,
                             ai |-> "runner", speed |-> 2, regen |-> 0,
                             range |-> 0, prefer |-> 0, xp |-> 10]
      [] kind = "archer" -> [ch |-> "a", hp |-> 6, atk |-> 8, dmg |-> <<1, 2>>,
                             ai |-> "ranged", speed |-> 1, regen |-> 0,
                             range |-> 7, prefer |-> 4, xp |-> 12]
      [] kind = "troll"  -> [ch |-> "T", hp |-> 20, atk |-> 10, dmg |-> <<3, 5>>,
                             ai |-> "melee", speed |-> 1, regen |-> 1,
                             range |-> 0, prefer |-> 0, xp |-> 24]

(***************************************************************************)
(* Arithmetic helpers.                                                     *)
(***************************************************************************)
Max(a, b) == IF a >= b THEN a ELSE b
Min(a, b) == IF a <= b THEN a ELSE b
Abs(a) == IF a < 0 THEN -a ELSE a
\* Python's // : floor division (the divisor is positive wherever it is used).
FloorDiv(a, b) == IF a >= 0 THEN a \div b ELSE -((-a + b - 1) \div b)

Cells == (0 .. MAP_W - 1) \X (0 .. MAP_H - 1)

(***************************************************************************)
(* Map generation.                                                         *)
(***************************************************************************)
rect(x, y, w, h) == <<x, y, w, h>>

center(r) == <<r[1] + r[3] \div 2, r[2] + r[4] \div 2>>

\* carve_room with the column left of the room carved as well.
carve_room_wide(grid, r) ==
    [c \in Cells |->
        IF /\ c[1] \in (r[1] - 1) .. (r[1] + r[3] - 1)
           /\ c[2] \in r[2] .. (r[2] + r[4] - 1)
        THEN FLOOR ELSE grid[c]]

carve_room(grid, r) ==
    [c \in Cells |->
        IF /\ c[1] \in r[1] .. (r[1] + r[3] - 1)
           /\ c[2] \in r[2] .. (r[2] + r[4] - 1)
        THEN FLOOR ELSE grid[c]]

carve_h(grid, x1, x2, y) ==
    [c \in Cells |->
        IF c[2] = y /\ c[1] \in Min(x1, x2) .. Max(x1, x2)
        THEN FLOOR ELSE grid[c]]

carve_v(grid, y1, y2, x) ==
    [c \in Cells |->
        IF c[1] = x /\ c[2] \in Min(y1, y2) .. Max(y1, y2)
        THEN FLOOR ELSE grid[c]]

\* The bounding-box test reduced to the test of equal corners.
rooms_overlap_corner(x, y, w, h, o) ==
    /\ x = o[1]
    /\ y = o[2]

\* The bounding-box test of make_map: the candidate (x, y, w, h) against
\* one accepted room o.
rooms_overlap(x, y, w, h, o) ==
    /\ x <= o[1] + o[3]
    /\ x + w >= o[1]
    /\ y <= o[2] + o[4]
    /\ y + h >= o[2]

\* One iteration of make_map's loop with the first leg of the corridor only.
make_map_step_one_leg(m, d) ==
    LET new == rect(d.x, d.y, d.w, d.h)
        overlaps == \E i \in 1 .. Len(m.rooms) :
                        rooms_overlap(d.x, d.y, d.w, d.h, m.rooms[i])
        g1 == carve_room(m.grid, new)
        a == center(m.rooms[Len(m.rooms)])
        b == center(new)
        g2 == IF m.rooms = <<>> THEN g1
              ELSE IF d.coin
                   THEN carve_h(g1, a[1], b[1], a[2])
                   ELSE carve_v(g1, a[2], b[2], a[1])
    IN  IF overlaps THEN m
        ELSE [grid |-> g2, rooms |-> Append(m.rooms, new)]

\* One iteration of make_map's loop on the draw d = [w, h, x, y, coin];
\* m = [grid, rooms].
make_map_step(m, d) ==
    LET new == rect(d.x, d.y, d.w, d.h)
        overlaps == \E i \in 1 .. Len(m.rooms) :
                        rooms_overlap(d.x, d.y, d.w, d.h, m.rooms[i])
        g1 == carve_room(m.grid, new)
        a == center(m.rooms[Len(m.rooms)])
        b == center(new)
        g2 == IF m.rooms = <<>> THEN g1
              ELSE IF d.coin
                   THEN carve_v(carve_h(g1, a[1], b[1], a[2]), a[2], b[2], b[1])
                   ELSE carve_h(carve_v(g1, a[2], b[2], a[1]), a[1], b[1], b[2])
    IN  IF overlaps THEN m
        ELSE [grid |-> g2, rooms |-> Append(m.rooms, new)]

RECURSIVE make_map_loop(_, _, _)
make_map_loop(m, draws, i) ==
    IF i > Len(draws) THEN m
    ELSE make_map_loop(make_map_step(m, draws[i]), draws, i + 1)

\* make_map on the MAX_ROOMS draws of one call.
make_map(draws) ==
    make_map_loop([grid |-> [c \in Cells |-> WALL], rooms |-> <<>>], draws, 1)

(***************************************************************************)
(* Line of sight and field of view.                                        *)
(***************************************************************************)
RECURSIVE bresenham_walk(_, _, _, _, _, _, _, _, _)
bresenham_walk(x, y, err, x1, y1, dx, dy, sx, sy) ==
    IF x = x1 /\ y = y1 THEN <<<<x, y>>>>
    ELSE LET e2 == 2 * err
             stepx == e2 > -dy
             errx == IF stepx THEN err - dy ELSE err
             xn == IF stepx THEN x + sx ELSE x
             stepy == e2 < dx
             erry == IF stepy THEN errx + dx ELSE errx
             yn == IF stepy THEN y + sy ELSE y
         IN  <<<<x, y>>>> \o bresenham_walk(xn, yn, erry, x1, y1, dx, dy, sx, sy)

\* The cells bresenham_line yields, in order.
bresenham_line(x0, y0, x1, y1) ==
    LET dx == Abs(x1 - x0)
        dy == Abs(y1 - y0)
        sx == IF x0 < x1 THEN 1 ELSE -1
        sy == IF y0 < y1 THEN 1 ELSE -1
    IN  bresenham_walk(x0, y0, dx - dy, x1, y1, dx, dy, sx, sy)

in_bounds(x, y) == 0 <= x /\ x < MAP_W /\ 0 <= y /\ y < MAP_H

RECURSIVE los_walk(_, _, _, _, _)
los_walk(grid, line, i, x1, y1) ==
    IF i > Len(line) THEN TRUE
    ELSE LET x == line[i][1]
             y == line[i][2]
         IN  IF ~in_bounds(x, y) THEN FALSE
             ELSE IF grid[<<x, y>>] = WALL /\ ~(x = x1 /\ y = y1) THEN FALSE
             ELSE los_walk(grid, line, i + 1, x1, y1)

\* los_clear with no exemption for a wall that is the target cell.
los_clear_blocks_target(grid, x0, y0, x1, y1) ==
    los_walk(grid, bresenham_line(x0, y0, x1, y1), 2, -1, -1)

\* The first cell of the line (i == 0 in the code) is skipped.
los_clear(grid, x0, y0, x1, y1) ==
    los_walk(grid, bresenham_line(x0, y0, x1, y1), 2, x1, y1)

\* fov of the variant v from the cell (px, py): the Qt copy adds the origin
\* before the scan, the curses copy does not.
fov(v, px, py, grid) ==
    (IF v = "qt" THEN {<<px, py>>} ELSE {}) \cup
    {c \in (Max(0, px - FOV_RADIUS) .. (Min(MAP_W, px + FOV_RADIUS + 1) - 1))
           \X (Max(0, py - FOV_RADIUS) .. (Min(MAP_H, py + FOV_RADIUS + 1) - 1)) :
        /\ (c[1] - px) * (c[1] - px) + (c[2] - py) * (c[2] - py)
              <= FOV_RADIUS * FOV_RADIUS
        /\ los_clear(grid, px, py, c[1], c[2])}

(***************************************************************************)
(* Derived stats.                                                          *)
(***************************************************************************)
\* draws[a] is the rint(8, 14) draw of attribute a.
roll_base_attrs(draws) ==
    [a \in ATTRS |-> draws[a] + RACE_DWARF[a] + PROF_SLAYER[a]]

\* <<max_hp, atk, par>>
derive(attrs) ==
    <<20 + Max(0, attrs["KO"] - 10) + FloorDiv(attrs["KK"], 5),
      6 + FloorDiv(attrs["KK"] + attrs["GE"], 4),
      4 + FloorDiv(attrs["GE"] + attrs["MU"], 5)>>

xp_threshold(level) == 20 + level * 10

(***************************************************************************)
(* Spawns.                                                                 *)
(***************************************************************************)
RECURSIVE Repeat(_, _)
Repeat(name, n) == IF n <= 0 THEN <<>> ELSE <<name>> \o Repeat(name, n - 1)

depth_spawn_bag(depth) ==
    LET bag == Repeat("goblin", Max(0, Max(2, 8 - Min(depth, 6))))
               \o Repeat("wolf", Max(0, Max(1, depth)))
               \o Repeat("archer", Max(0, Max(1, depth \div 1)))
               \o Repeat("orc", Max(0, Max(1, 1 + depth \div 2)))
               \o (IF depth >= 2 THEN Repeat("troll", Max(0, Max(1, depth - 1)))
                   ELSE <<>>)
    IN  IF bag = <<>> THEN <<"goblin">> ELSE bag

\* The Entity that spawn_mobs_items builds from the template of kind.
Entity(x, y, kind) ==
    LET t == ENEMIES(kind)
    IN  [x |-> x, y |-> y, ch |-> t.ch, name |-> kind, hp |-> t.hp,
         max_hp |-> t.hp, alive |-> TRUE, fresh |-> TRUE, ai |-> t.ai,
         atk |-> t.atk, dmg |-> t.dmg, speed |-> t.speed, regen |-> t.regen,
         range |-> t.range, prefer |-> t.prefer, xp |-> t.xp]

\* The acceptance test without the start cell and the stairs cell.
spawn_ok_any_floor(grid, start, end, c) ==
    grid[c] = FLOOR

\* The acceptance test of one position draw c.
spawn_ok(grid, start, end, c) ==
    grid[c] = FLOOR /\ c \notin {start, end}

\* The retry loop of one placement on the draws tries, one per attempt: the
\* index of the first accepted draw among tries[1 .. limit], 0 when the loop
\* runs out.
spawn_try(grid, start, end, tries, i, limit) ==
    LET ok == {k \in i .. Min(limit, Len(tries)) :
                  spawn_ok(grid, start, end, tries[k])}
    IN  IF ok = {} THEN 0
        ELSE CHOOSE k \in ok : \A j \in ok : k <= j

ITEM_TRIES == 200
MOB_TRIES == 300

\* The attempt limit of a placement loop: range(200) / range(300) in the Qt
\* copy; the curses copy loops "while True", to the end of its draws.
try_limit(v, limit, tries) == IF v = "qt" THEN limit ELSE Len(tries)

RECURSIVE spawn_items(_, _, _, _, _, _, _)
spawn_items(v, grid, start, end, items, idraws, i) ==
    IF i > NumItems THEN items
    ELSE LET k == spawn_try(grid, start, end, idraws[i], 1,
                            try_limit(v, ITEM_TRIES, idraws[i]))
         IN  spawn_items(v, grid, start, end,
                         IF k = 0 THEN items
                         ELSE Append(items, <<idraws[i][k][1], idraws[i][k][2], "potion">>),
                         idraws, i + 1)

RECURSIVE spawn_mobs(_, _, _, _, _, _, _)
spawn_mobs(v, grid, start, end, mobs, mdraws, i) ==
    IF i > NumMobs THEN mobs
    ELSE LET k == spawn_try(grid, start, end, mdraws[i].tries, 1,
                            try_limit(v, MOB_TRIES, mdraws[i].tries))
         IN  spawn_mobs(v, grid, start, end,
                        IF k = 0 THEN mobs
                        ELSE Append(mobs, Entity(mdraws[i].tries[k][1],
                                                 mdraws[i].tries[k][2],
                                                 mdraws[i].kind)),
                        mdraws, i + 1)

\* Whether the draws of one placement can be the draws of its loop: they end
\* with an accepted cell, or (Qt) there are as many as the loop has attempts.
tries_ok(v, grid, start, end, tries, limit) ==
    \/ spawn_try(grid, start, end, tries, 1, Len(tries)) # 0
    \/ v = "qt" /\ Len(tries) >= limit

\* Whether the spawn draws d can be drawn on the map m = [grid, rooms] at
\* the depth: every position draw lies in rint's range, every kind is in
\* the bag of the depth, and every placement loop can draw its draws.
spawn_draws_ok(v, depth, m, d) ==
    LET start == center(m.rooms[1])
        end == center(m.rooms[Len(m.rooms)])
        inrange(c) == c[1] \in 1 .. MAP_W - 2 /\ c[2] \in 1 .. MAP_H - 2
        bag == depth_spawn_bag(depth)
    IN  /\ \A i \in 1 .. NumItems :
               /\ \A k \in 1 .. Len(d.items[i]) : inrange(d.items[i][k])
               /\ tries_ok(v, m.grid, start, end, d.items[i], ITEM_TRIES)
        /\ \A i \in 1 .. NumMobs :
               /\ \A k \in 1 .. Len(d.mobs[i].tries) : inrange(d.mobs[i].tries[k])
               /\ \E j \in 1 .. Len(bag) : bag[j] = d.mobs[i].kind
               /\ tries_ok(v, m.grid, start, end, d.mobs[i].tries, MOB_TRIES)

\* Whether the room draws can be drawn by make_map's rint calls.
map_draws_ok(draws) ==
    /\ Len(draws) = MAX_ROOMS
    /\ \A i \in 1 .. Len(draws) :
           /\ draws[i].w \in ROOM_MIN .. ROOM_MAX
           /\ draws[i].h \in ROOM_MIN .. ROOM_MAX
           /\ draws[i].x \in 1 .. MAP_W - draws[i].w - 2
           /\ draws[i].y \in 1 .. MAP_H - draws[i].h - 2

\* The draws of FD that one call of new_floor can make at the depth.
floor_draws(v, depth, FD) ==
    {d \in FD : /\ map_draws_ok(d.map)
                /\ spawn_draws_ok(v, depth, make_map(d.map), d)}

\* spawn_mobs_items on the draws d = [items, mobs].
spawn_mobs_items(v, g, d) ==
    LET start == center(g.rooms[1])
        end == center(g.rooms[Len(g.rooms)])
    IN  [g EXCEPT !.player.x = start[1], !.player.y = start[2],
                  !.stairs = end,
                  !.items = spawn_items(v, g.grid, start, end, g.items, d.items, 1),
                  !.mobs = spawn_mobs(v, g.grid, start, end, g.mobs, d.mobs, 1)]

(***************************************************************************)
(* Dice.  The draws of one attack are a record; an attack that can draw    *)
(* any record of a set returns the set of its outcomes.                    *)
(***************************************************************************)
\* random.randint(a, b) of damage_roll on the draw r: its lowest value, its
\* highest value, or ("mid") the value half way.
damage_roll(dmg, r) ==
    IF r = "lo" THEN dmg[1]
    ELSE IF r = "hi" THEN dmg[2]
    ELSE (dmg[1] + dmg[2]) \div 2

\* The draws of player_attack, [d, o, b]: roll(1, 20), the opener roll(1, 2)
\* and the base roll(1, 3).  The attacker's best rolls, and its worst.
PlayerDraws == {[d |-> 1, o |-> 2, b |-> 3], [d |-> 20, o |-> 1, b |-> 1]}

\* The draws of the enemy attacks of one AI turn, [d1, d2, r]: the two
\* roll(1, 20) and the damage draw; every attack of the turn draws the same.
\* The attacker's best rolls, and its worst.
EnemyDraws == {[d1 |-> 1, d2 |-> 20, r |-> "hi"], [d1 |-> 20, d2 |-> 1, r |-> "lo"]}

(***************************************************************************)
(* Combat.                                                                 *)
(***************************************************************************)
\* A log line: its kind, the monster it names and the number it prints.
Msg(t, name, n) == [t |-> t, name |-> name, n |-> n]

push_log(g, msg) ==
    LET l == Append(g.log, msg)
    IN  [g EXCEPT !.log = IF Len(l) > LOG_MAX
                          THEN SubSeq(l, Len(l) - LOG_MAX + 1, Len(l))
                          ELSE l]

\* One pass of award_xp's while loop.
level_up(g) ==
    LET p == g.player
        lvl == p.level + 1
        p1 == [p EXCEPT !.xp = p.xp - p.next_xp,
                        !.level = lvl,
                        !.next_xp = xp_threshold(lvl),
                        !.max_hp = p.max_hp + 4,
                        !.atk = p.atk + 1,
                        !.par = IF lvl % 2 = 0 THEN p.par + 1 ELSE p.par]
        p2 == [p1 EXCEPT !.hp = Min(p1.max_hp, p1.hp + 4)]
    IN  push_log([g EXCEPT !.player = p2], Msg("level", "", lvl))

\* award_xp's loop as a single "if": at most one level-up per award.
award_xp_once(g) ==
    IF g.player.xp >= g.player.next_xp THEN level_up(g) ELSE g

RECURSIVE award_xp_loop(_)
award_xp_loop(g) ==
    IF g.player.xp >= g.player.next_xp THEN award_xp_loop(level_up(g)) ELSE g

award_xp(g, amount) ==
    award_xp_loop(push_log([g EXCEPT !.player.xp = @ + amount],
                           Msg("xp", "", amount)))

\* player_attack with the fresh flag left as it is.
player_attack_keeps_fresh(g, i, dr) ==
    LET mob == g.mobs[i]
    IN  IF dr.d <= Max(3, g.player.atk - 2)
        THEN LET opener == IF mob.fresh THEN dr.o ELSE 0
                 base == 2 + dr.b
                 kk_bonus == Max(0, FloorDiv(g.player.attrs["KK"] - 10, 2))
                 dmg == Max(1, base + kk_bonus + opener)
                 g1 == push_log([g EXCEPT !.mobs[i].hp = @ - dmg],
                                Msg("hit", mob.name, dmg))
             IN  IF g1.mobs[i].hp <= 0
                 THEN award_xp(push_log([g1 EXCEPT !.mobs[i].alive = FALSE],
                                        Msg("dies", mob.name, 0)),
                               mob.xp)
                 ELSE g1
        ELSE push_log(g, Msg("miss", mob.name, 0))

\* player_attack with a hit only below the threshold.
player_attack_strict(g, i, dr) ==
    LET mob == g.mobs[i]
    IN  IF dr.d < Max(3, g.player.atk - 2)
        THEN LET opener == IF mob.fresh THEN dr.o ELSE 0
                 base == 2 + dr.b
                 kk_bonus == Max(0, FloorDiv(g.player.attrs["KK"] - 10, 2))
                 dmg == Max(1, base + kk_bonus + opener)
                 g1 == push_log([g EXCEPT !.mobs[i].fresh = FALSE,
                                          !.mobs[i].hp = @ - dmg],
                                Msg("hit", mob.name, dmg))
             IN  IF g1.mobs[i].hp <= 0
                 THEN award_xp(push_log([g1 EXCEPT !.mobs[i].alive = FALSE],
                                        Msg("dies", mob.name, 0)),
                               mob.xp)
                 ELSE g1
        ELSE push_log(g, Msg("miss", mob.name, 0))

\* player_attack on the mob g.mobs[i] with the draws dr.
player_attack_draws(g, i, dr) ==
    LET mob == g.mobs[i]
    IN  IF dr.d <= Max(3, g.player.atk - 2)
        THEN LET opener == IF mob.fresh THEN dr.o ELSE 0
                 base == 2 + dr.b
                 kk_bonus == Max(0, FloorDiv(g.player.attrs["KK"] - 10, 2))
                 dmg == Max(1, base + kk_bonus + opener)
                 g1 == push_log([g EXCEPT !.mobs[i].fresh = FALSE,
                                          !.mobs[i].hp = @ - dmg],
                                Msg("hit", mob.name, dmg))
             IN  IF g1.mobs[i].hp <= 0
                 THEN award_xp(push_log([g1 EXCEPT !.mobs[i].alive = FALSE],
                                        Msg("dies", mob.name, 0)),
                               mob.xp)
                 ELSE g1
        ELSE push_log(g, Msg("miss", mob.name, 0))

\* player_attack: the Games it can leave, one per outcome of its draws.
player_attack(g, i) == {player_attack_draws(g, i, dr) : dr \in PlayerDraws}

\* enemy_attack_player that hits on either draw alone.
enemy_attack_either(g, i, dr) ==
    LET m == g.mobs[i]
    IN  IF dr.d1 <= m.atk \/ dr.d2 > g.player.par
        THEN LET dmg == damage_roll(m.dmg, dr.r)
             IN  push_log([g EXCEPT !.player.hp = @ - dmg],
                          Msg("hits_you", m.name, dmg))
        ELSE push_log(g, Msg("fend", m.name, 0))

\* enemy_attack_player by the mob g.mobs[i] with the draws dr.
enemy_attack_player(g, i, dr) ==
    LET m == g.mobs[i]
    IN  IF dr.d1 <= m.atk /\ dr.d2 > g.player.par
        THEN LET dmg == damage_roll(m.dmg, dr.r)
             IN  push_log([g EXCEPT !.player.hp = @ - dmg],
                          Msg("hits_you", m.name, dmg))
        ELSE push_log(g, Msg("fend", m.name, 0))

Sign(a, b) == IF a > b THEN 1 ELSE IF a < b THEN -1 ELSE 0

\* step_toward without the test of the other monsters.
step_toward_through(g, i, tx, ty) ==
    LET m == g.mobs[i]
        nx == m.x + Sign(tx, m.x)
        ny == m.y + Sign(ty, m.y)
    IN  IF ~in_bounds(nx, ny) THEN g
        ELSE IF g.grid[<<nx, ny>>] = WALL THEN g
        ELSE IF <<nx, ny>> = <<g.player.x, g.player.y>> THEN g
        ELSE [g EXCEPT !.mobs[i].x = nx, !.mobs[i].y = ny]

step_toward(g, i, tx, ty) ==
    LET m == g.mobs[i]
        nx == m.x + Sign(tx, m.x)
        ny == m.y + Sign(ty, m.y)
    IN  IF ~in_bounds(nx, ny) THEN g
        ELSE IF g.grid[<<nx, ny>>] = WALL THEN g
        ELSE IF <<nx, ny>> = <<g.player.x, g.player.y>> THEN g
        ELSE IF \E j \in 1 .. Len(g.mobs) :
                    /\ g.mobs[j].alive
                    /\ <<g.mobs[j].x, g.mobs[j].y>> = <<nx, ny>>
                    /\ j # i
             THEN g
        ELSE [g EXCEPT !.mobs[i].x = nx, !.mobs[i].y = ny]

\* The squared distance from the mob g.mobs[i] to the player (the code takes
\* math.hypot and compares it with 1, 1.5, 2, range and prefer).
dist2(g, i) ==
    (g.mobs[i].x - g.player.x) * (g.mobs[i].x - g.player.x)
    + (g.mobs[i].y - g.player.y) * (g.mobs[i].y - g.player.y)

\* The melee / runner loop of ai_turn from its k-th pass on.  The Qt copy
\* measures the distance anew in every pass; the curses copy tests its
\* variable dist (here d2, squared), set before the loop and after each step.
RECURSIVE melee_loop(_, _, _, _, _, _, _)
melee_loop(v, g, i, k, steps, d2, dr) ==
    IF k > steps THEN g
    ELSE IF 4 * (IF v = "qt" THEN dist2(g, i) ELSE d2) <= 9
    THEN enemy_attack_player(g, i, dr)
    ELSE LET g1 == step_toward(g, i, g.player.x, g.player.y)
         IN  melee_loop(v, g1, i, k + 1, steps, dist2(g1, i), dr)

\* The body of ai_turn's loop with the regeneration of every living monster
\* that has a regen, whatever its hp.
mob_turn_regen_always(v, g, i, dr) ==
    LET m0 == g.mobs[i]
        g1 == IF m0.regen # 0
              THEN [g EXCEPT !.mobs[i].hp = m0.hp + m0.regen]
              ELSE g
        m == g1.mobs[i]
        d2 == dist2(g1, i)
    IN  IF ~m0.alive THEN g
        ELSE IF m.ai = "ranged"
        THEN IF /\ d2 > 1
                /\ d2 <= m.range * m.range
                /\ los_clear(g1.grid, m.x, m.y, g1.player.x, g1.player.y)
             THEN enemy_attack_player(g1, i, dr)
             ELSE IF d2 < m.prefer * m.prefer
             THEN step_toward(g1, i, m.x - (g1.player.x - m.x),
                              m.y - (g1.player.y - m.y))
             ELSE step_toward(g1, i, g1.player.x, g1.player.y)
        ELSE melee_loop(v, g1, i, 1,
                        IF m.ai = "runner" /\ d2 > 4 THEN 2 ELSE 1, d2, dr)

\* The body of ai_turn's loop with two passes for every runner.
mob_turn_two_steps(v, g, i, dr) ==
    LET m0 == g.mobs[i]
        g1 == IF m0.regen # 0 /\ m0.hp > 0 /\ m0.hp < m0.max_hp
              THEN [g EXCEPT !.mobs[i].hp = Min(m0.max_hp, m0.hp + m0.regen)]
              ELSE g
        m == g1.mobs[i]
        d2 == dist2(g1, i)
    IN  IF ~m0.alive THEN g
        ELSE IF m.ai = "ranged"
        THEN IF /\ d2 > 1
                /\ d2 <= m.range * m.range
                /\ los_clear(g1.grid, m.x, m.y, g1.player.x, g1.player.y)
             THEN enemy_attack_player(g1, i, dr)
             ELSE IF d2 < m.prefer * m.prefer
             THEN step_toward(g1, i, m.x - (g1.player.x - m.x),
                              m.y - (g1.player.y - m.y))
             ELSE step_toward(g1, i, g1.player.x, g1.player.y)
        ELSE melee_loop(v, g1, i, 1, IF m.ai = "runner" THEN 2 ELSE 1, d2, dr)

\* The body of ai_turn's loop with a ranged attack from the next cell too.
mob_turn_ranged_adjacent(v, g, i, dr) ==
    LET m0 == g.mobs[i]
        g1 == IF m0.regen # 0 /\ m0.hp > 0 /\ m0.hp < m0.max_hp
              THEN [g EXCEPT !.mobs[i].hp = Min(m0.max_hp, m0.hp + m0.regen)]
              ELSE g
        m == g1.mobs[i]
        d2 == dist2(g1, i)
    IN  IF ~m0.alive THEN g
        ELSE IF m.ai = "ranged"
        THEN IF /\ d2 >= 1
                /\ d2 <= m.range * m.range
                /\ los_clear(g1.grid, m.x, m.y, g1.player.x, g1.player.y)
             THEN enemy_attack_player(g1, i, dr)
             ELSE IF d2 < m.prefer * m.prefer
             THEN step_toward(g1, i, m.x - (g1.player.x - m.x),
                              m.y - (g1.player.y - m.y))
             ELSE step_toward(g1, i, g1.player.x, g1.player.y)
        ELSE melee_loop(v, g1, i, 1,
                        IF m.ai = "runner" /\ d2 > 4 THEN 2 ELSE 1, d2, dr)

\* The body of ai_turn's loop for the mob g.mobs[i].
mob_turn(v, g, i, dr) ==
    LET m0 == g.mobs[i]
        g1 == IF m0.regen # 0 /\ m0.hp > 0 /\ m0.hp < m0.max_hp
              THEN [g EXCEPT !.mobs[i].hp = Min(m0.max_hp, m0.hp + m0.regen)]
              ELSE g
        m == g1.mobs[i]
        d2 == dist2(g1, i)
    IN  IF ~m0.alive THEN g
        ELSE IF m.ai = "ranged"
        THEN IF /\ d2 > 1
                /\ d2 <= m.range * m.range
                /\ los_clear(g1.grid, m.x, m.y, g1.player.x, g1.player.y)
             THEN enemy_attack_player(g1, i, dr)
             ELSE IF d2 < m.prefer * m.prefer
             THEN step_toward(g1, i, m.x - (g1.player.x - m.x),
                              m.y - (g1.player.y - m.y))
             ELSE step_toward(g1, i, g1.player.x, g1.player.y)
        ELSE melee_loop(v, g1, i, 1,
                        IF m.ai = "runner" /\ d2 > 4 THEN 2 ELSE 1, d2, dr)

RECURSIVE ai_loop(_, _, _, _)
ai_loop(v, g, i, dr) ==
    IF i > Len(g.mobs) THEN g
    ELSE ai_loop(v, mob_turn(v, g, i, dr), i + 1, dr)

\* ai_turn: the Games it can leave, one per outcome of its draws.
ai_turn(v, g) == {ai_loop(v, g, 1, dr) : dr \in EnemyDraws}

(***************************************************************************)
(* Player actions and floors.                                              *)
(***************************************************************************)
\* math.atan2(dy, dx) in degrees, for dx, dy in -1 .. 1 not both 0.
atan2(dy, dx) ==
    CASE dy = 0 /\ dx = 1 -> 0
      [] dy = 1 /\ dx = 1 -> 45
      [] dy = 1 /\ dx = 0 -> 90
      [] dy = 1 /\ dx = -1 -> 135
      [] dy = 0 /\ dx = -1 -> 180
      [] dy = -1 /\ dx = -1 -> -135
      [] dy = -1 /\ dx = 0 -> -90
      [] dy = -1 /\ dx = 1 -> -45

\* update_visibility with explored replaced by the visible set.
update_visibility_replaces(v, g) ==
    LET vis == fov(v, g.player.x, g.player.y, g.grid)
    IN  [g EXCEPT !.visible = vis, !.explored = vis]

update_visibility(v, g) ==
    LET vis == fov(v, g.player.x, g.player.y, g.grid)
    IN  [g EXCEPT !.visible = vis, !.explored = g.explored \cup vis]

\* new_floor(None) without the call of spawn_mobs_items.
new_game_unpopulated(v, d) ==
    LET m == make_map(d.map)
        attrs == roll_base_attrs(d.attrs)
        st == derive(attrs)
        p == [x |-> 1, y |-> 1, attrs |-> attrs, atk |-> st[2], par |-> st[3],
              max_hp |-> st[1], hp |-> st[1], potions |-> 0, level |-> 1,
              xp |-> 0, next_xp |-> xp_threshold(1), angle |-> 0]
        g == [depth |-> 1, turn |-> 1, grid |-> m.grid, rooms |-> m.rooms,
              player |-> p, mobs |-> <<>>, items |-> <<>>, stairs |-> <<0, 0>>,
              explored |-> {}, visible |-> {},
              log |-> <<Msg("enter", "", 0)>>, over |-> FALSE]
    IN  IF v = "qt" THEN update_visibility(v, g) ELSE g

\* new_floor(None) on the draws d = [attrs, map, items, mobs]: a new game.
\* The curses Game has no visible set and its Player no angle: they stay {}
\* and 0 here until draw sets visible to its local vis.
new_game(v, d) ==
    LET m == make_map(d.map)
        attrs == roll_base_attrs(d.attrs)
        st == derive(attrs)
        p == [x |-> 1, y |-> 1, attrs |-> attrs, atk |-> st[2], par |-> st[3],
              max_hp |-> st[1], hp |-> st[1], potions |-> 0, level |-> 1,
              xp |-> 0, next_xp |-> xp_threshold(1), angle |-> 0]
        g == [depth |-> 1, turn |-> 1, grid |-> m.grid, rooms |-> m.rooms,
              player |-> p, mobs |-> <<>>, items |-> <<>>, stairs |-> <<0, 0>>,
              explored |-> {}, visible |-> {},
              log |-> <<Msg("enter", "", 0)>>, over |-> FALSE]
        g1 == spawn_mobs_items(v, g, d)
    IN  IF v = "qt" THEN update_visibility(v, g1) ELSE g1

\* new_floor without the reset of mobs and items.
new_floor_keeps_mobs(v, g, d) ==
    LET m == make_map(d.map)
        ang == g.player.angle
        g1 == [g EXCEPT !.grid = m.grid, !.rooms = m.rooms, !.explored = {}]
        g2 == IF v = "qt" THEN [g1 EXCEPT !.visible = {}] ELSE g1
        g3 == spawn_mobs_items(v, g2, d)
        g4 == [g3 EXCEPT !.player.angle = ang]
    IN  IF v = "qt" THEN update_visibility(v, g4) ELSE g3

\* new_floor without the reset of explored.
new_floor_keeps_explored(v, g, d) ==
    LET m == make_map(d.map)
        ang == g.player.angle
        g1 == [g EXCEPT !.grid = m.grid, !.rooms = m.rooms, !.mobs = <<>>,
                        !.items = <<>>]
        g2 == IF v = "qt" THEN [g1 EXCEPT !.visible = {}] ELSE g1
        g3 == spawn_mobs_items(v, g2, d)
        g4 == [g3 EXCEPT !.player.angle = ang]
    IN  IF v = "qt" THEN update_visibility(v, g4) ELSE g3

\* new_floor with the player left on the cell it came from.
new_floor_keeps_position(v, g, d) ==
    LET m == make_map(d.map)
        g1 == [g EXCEPT !.grid = m.grid, !.rooms = m.rooms, !.mobs = <<>>,
                        !.items = <<>>, !.explored = {}]
        g2 == IF v = "qt" THEN [g1 EXCEPT !.visible = {}] ELSE g1
        g3 == [spawn_mobs_items(v, g2, d) EXCEPT !.player = g.player]
    IN  IF v = "qt" THEN update_visibility(v, g3) ELSE g3

\* new_floor(g) on the draws d = [map, items, mobs]: the next floor.
new_floor(v, g, d) ==
    LET m == make_map(d.map)
        ang == g.player.angle
        g1 == [g EXCEPT !.grid = m.grid, !.rooms = m.rooms, !.mobs = <<>>,
                        !.items = <<>>, !.explored = {}]
        g2 == IF v = "qt" THEN [g1 EXCEPT !.visible = {}] ELSE g1
        g3 == spawn_mobs_items(v, g2, d)
        g4 == [g3 EXCEPT !.player.angle = ang]
    IN  IF v = "qt" THEN update_visibility(v, g4) ELSE g3

\* mob_at without the test of the alive flag.
mob_at_any(g, c) ==
    LET hit == {i \in 1 .. Len(g.mobs) : <<g.mobs[i].x, g.mobs[i].y>> = c}
    IN  IF hit = {} THEN 0 ELSE CHOOSE i \in hit : \A j \in hit : i <= j

\* The index of the first living mob on the cell c, 0 when there is none.
mob_at(g, c) ==
    LET hit == {i \in 1 .. Len(g.mobs) :
                   g.mobs[i].alive /\ <<g.mobs[i].x, g.mobs[i].y>> = c}
    IN  IF hit = {} THEN 0 ELSE CHOOSE i \in hit : \A j \in hit : i <= j

\* The index of the first potion on the cell c, 0 when there is none.
item_at(g, c) ==
    LET hit == {i \in 1 .. Len(g.items) :
                   <<g.items[i][1], g.items[i][2]>> = c /\ g.items[i][3] = "potion"}
    IN  IF hit = {} THEN 0 ELSE CHOOSE i \in hit : \A j \in hit : i <= j

RemoveAt(s, i) == SubSeq(s, 1, i - 1) \o SubSeq(s, i + 1, Len(s))

\* pickup taking every item of the player's cell for one potion.
pickup_all(g) ==
    LET c == <<g.player.x, g.player.y>>
        keep == {i \in 1 .. Len(g.items) :
                    <<g.items[i][1], g.items[i][2]>> # c}
        RECURSIVE kept(_)
        kept(i) == IF i > Len(g.items) THEN <<>>
                   ELSE (IF i \in keep THEN <<g.items[i]>> ELSE <<>>) \o kept(i + 1)
    IN  IF item_at(g, c) = 0 THEN g
        ELSE push_log([g EXCEPT !.player.potions = @ + 1,
                                !.items = kept(1)],
                      Msg("pickup", "", 0))

pickup(g) ==
    LET i == item_at(g, <<g.player.x, g.player.y>>)
    IN  IF i = 0 THEN g
        ELSE push_log([g EXCEPT !.player.potions = @ + 1,
                                !.items = RemoveAt(g.items, i)],
                      Msg("pickup", "", 0))

\* try_move_player with the turn counted at the wall as well.
try_move_player_wall_turn(v, g, dx, dy, FD) ==
    LET g0 == IF v = "qt" /\ (dx # 0 \/ dy # 0)
              THEN [g EXCEPT !.player.angle = atan2(dy, dx)] ELSE g
        nx == Max(0, Min(MAP_W - 1, g.player.x + dx))
        ny == Max(0, Min(MAP_H - 1, g.player.y + dy))
        m == mob_at(g0, <<nx, ny>>)
        g1 == pickup([g0 EXCEPT !.player.x = nx, !.player.y = ny])
        g2 == push_log([g1 EXCEPT !.depth = @ + 1, !.turn = @ + 1],
                       Msg("descend", "", g1.depth + 1))
    IN  IF g0.grid[<<nx, ny>>] = WALL THEN {[g0 EXCEPT !.turn = @ + 1]}
        ELSE IF m # 0 THEN player_attack(g0, m)
        ELSE IF <<g1.player.x, g1.player.y>> = g1.stairs
        THEN {new_floor(v, g2, d) : d \in floor_draws(v, g2.depth, FD)}
        ELSE {g1}

\* try_move_player without the attack: the player walks onto the monster.
try_move_player_no_attack(v, g, dx, dy, FD) ==
    LET g0 == IF v = "qt" /\ (dx # 0 \/ dy # 0)
              THEN [g EXCEPT !.player.angle = atan2(dy, dx)] ELSE g
        nx == Max(0, Min(MAP_W - 1, g.player.x + dx))
        ny == Max(0, Min(MAP_H - 1, g.player.y + dy))
        g1 == pickup([g0 EXCEPT !.player.x = nx, !.player.y = ny])
        g2 == push_log([g1 EXCEPT !.depth = @ + 1, !.turn = @ + 1],
                       Msg("descend", "", g1.depth + 1))
    IN  IF g0.grid[<<nx, ny>>] = WALL THEN {g0}
        ELSE IF <<g1.player.x, g1.player.y>> = g1.stairs
        THEN {new_floor(v, g2, d) : d \in floor_draws(v, g2.depth, FD)}
        ELSE {g1}

\* try_move_player; FD is the set of draws a new floor can be made from.
try_move_player(v, g, dx, dy, FD) ==
    LET g0 == IF v = "qt" /\ (dx # 0 \/ dy # 0)
              THEN [g EXCEPT !.player.angle = atan2(dy, dx)] ELSE g
        nx == Max(0, Min(MAP_W - 1, g.player.x + dx))
        ny == Max(0, Min(MAP_H - 1, g.player.y + dy))
        m == mob_at(g0, <<nx, ny>>)
        g1 == pickup([g0 EXCEPT !.player.x = nx, !.player.y = ny])
        g2 == push_log([g1 EXCEPT !.depth = @ + 1, !.turn = @ + 1],
                       Msg("descend", "", g1.depth + 1))
    IN  IF g0.grid[<<nx, ny>>] = WALL THEN {g0}
        ELSE IF m # 0 THEN player_attack(g0, m)
        ELSE IF <<g1.player.x, g1.player.y>> = g1.stairs
        THEN {new_floor(v, g2, d) : d \in floor_draws(v, g2.depth, FD)}
        ELSE {g1}

rotate_player(g, delta_deg) ==
    [g EXCEPT !.player.angle = (g.player.angle + delta_deg) % 360]

\* use_potion without the test of the potion count.
use_potion_unguarded(g) ==
    LET heal == Max(4, 6 + Max(0, FloorDiv(g.player.attrs["KO"] - 10, 2)))
    IN  push_log([g EXCEPT !.player.potions = @ - 1,
                           !.player.hp = Min(g.player.max_hp, g.player.hp + heal)],
                 Msg("quaff", "", 0))

use_potion(g) ==
    IF g.player.potions <= 0 THEN g
    ELSE LET heal == Max(4, 6 + Max(0, FloorDiv(g.player.attrs["KO"] - 10, 2)))
         IN  push_log([g EXCEPT !.player.potions = @ - 1,
                                !.player.hp = Min(g.player.max_hp, g.player.hp + heal)],
                      Msg("quaff", "", 0))

(***************************************************************************)
(* The Qt front end: MainWindow's handlers.  A handler returns the set of  *)
(* its outcomes [mid, post]: post is the Game it leaves, mid the Game as   *)
(* it was when the handler's player step (try_move_player, the rest heal,  *)
(* use_potion, rotate_player) returned, before end_turn.                   *)
(***************************************************************************)
\* refresh without the call of update_visibility.
refresh_widgets_only(g) == g

refresh(g) == update_visibility("qt", g)

death_check(g) ==
    IF g.player.hp <= 0
    THEN push_log([g EXCEPT !.over = TRUE], Msg("fall", "", 0))
    ELSE g

end_turn(g) ==
    {refresh(death_check(a)) : a \in ai_turn("qt", [g EXCEPT !.turn = @ + 1])}

\* The outcomes of a handler whose player step left the Game mid and whose
\* end of turn can leave any Game of posts.
Outcomes(mid, posts) == {[mid |-> mid, post |-> e] : e \in posts}

action_or_move(g, dx, dy, FD) ==
    IF g.over THEN {[mid |-> g, post |-> g]}
    ELSE UNION {Outcomes(m, end_turn(m)) : m \in try_move_player("qt", g, dx, dy, FD)}

\* The rest heal without the cap at max hp.
rest_heal_uncapped(g) ==
    push_log([g EXCEPT !.player.hp = g.player.hp + 1], Msg("rest", "", 0))

\* The heal of on_rest (and of main's 'r' branch), before the turn ends.
rest_heal(g) ==
    push_log([g EXCEPT !.player.hp = Min(g.player.max_hp, g.player.hp + 1)],
             Msg("rest", "", 0))

on_rest(g) ==
    IF g.over THEN {[mid |-> g, post |-> g]}
    ELSE Outcomes(rest_heal(g), end_turn(rest_heal(g)))

on_potion(g) ==
    IF g.over THEN {[mid |-> g, post |-> g]}
    ELSE Outcomes(use_potion(g), end_turn(use_potion(g)))

\* The Q and E keys ending the turn as the other keys do.
key_rotate_ends_turn(g, delta_deg) ==
    Outcomes(rotate_player(g, delta_deg), end_turn(rotate_player(g, delta_deg)))

\* The Q and E keys of keyPressEvent.
key_rotate(g, delta_deg) ==
    LET r == rotate_player(g, delta_deg)
    IN  {[mid |-> r, post |-> refresh(r)]}

\* on_new on the draws of GD.
on_new(GD) ==
    {refresh(new_game("qt", d)) :
        d \in {e \in floor_draws("qt", 1, GD) :
                  \A a \in ATTRS : e.attrs[a] \in 8 .. 14}}

(***************************************************************************)
(* The curses front end: one pass of main's loop for one key, up to the    *)
(* draw at the top of the next pass.                                       *)
(***************************************************************************)
draw(g) ==
    LET vis == fov("curses", g.player.x, g.player.y, g.grid)
    IN  [g EXCEPT !.visible = vis, !.explored = g.explored \cup vis]

\* "g.turn += 1; ai_turn(g)", then the draw of the next pass.
main_turn(g) == {draw(a) : a \in ai_turn("curses", [g EXCEPT !.turn = @ + 1])}

\* The same with the death check of the move branch before the draw.
main_turn_check(g) ==
    {draw(death_check(a)) : a \in ai_turn("curses", [g EXCEPT !.turn = @ + 1])}

\* The arrow / WASD keys and '.': the pass ends with the death check.
main_move(g, dx, dy, FD) ==
    UNION {Outcomes(m, main_turn_check(m)) :
              m \in try_move_player("curses", g, dx, dy, FD)}

\* The 'r' and 'p' keys: the pass ends with "continue".
main_rest(g) == Outcomes(rest_heal(g), main_turn(rest_heal(g)))

main_potion(g) == Outcomes(use_potion(g), main_turn(use_potion(g)))

\* main before its loop, to the first draw.
main_start(GD) ==
    {draw(new_game("curses", d)) :
        d \in {e \in floor_draws("curses", 1, GD) :
                  \A a \in ATTRS : e.attrs[a] \in 8 .. 14}}

(***************************************************************************)
(* The draws of the game specification: two maps (one room; two rooms and  *)
(* the corridor between them); orcs drawn onto the cells left of the       *)
(* start cell (the first three, onto one cell) and diagonal to it; one     *)
(* potion above the start cell; every attribute drawn 14.                  *)
(***************************************************************************)
RoomA == [w |-> ROOM_MIN, h |-> ROOM_MIN, x |-> 1, y |-> 1, coin |-> TRUE]
RoomB == [w |-> ROOM_MIN, h |-> ROOM_MIN, x |-> MAP_W - ROOM_MIN - 2, y |-> 1,
          coin |-> TRUE]

MapDraws == {[i \in 1 .. MAX_ROOMS |-> IF i = 2 THEN d ELSE RoomA] :
                d \in {RoomA, RoomB}}

StartA == center(rect(RoomA.x, RoomA.y, RoomA.w, RoomA.h))
CellLeft == <<StartA[1] - 1, StartA[2]>>
CellUp == <<StartA[1], StartA[2] - 1>>
CellDiag == <<StartA[1] - 1, StartA[2] - 1>>

ItemDraws == {[i \in 1 .. NumItems |-> <<CellUp>>]}

MobDraws ==
    {[i \in 1 .. NumMobs |->
        [tries |-> <<IF i <= 3 THEN CellLeft ELSE CellDiag>>,
         kind |-> "orc"]]}

AttrDraws == {[a \in ATTRS |-> 14]}

FloorDraws ==
    {[map |-> m, items |-> i, mobs |-> b] :
        m \in MapDraws, i \in ItemDraws, b \in MobDraws}

GameDraws ==
    {[attrs |-> a, map |-> d.map, items |-> d.items, mobs |-> d.mobs] :
        a \in AttrDraws, d \in FloorDraws}

(***************************************************************************)
(* The state machine.                                                      *)
(***************************************************************************)
VARIABLES
    variant,    \* which front end runs: "qt" or "curses"
    g,          \* the Game
    last,       \* the last handler that ran: its name, its arguments, and
                \* in floor the Game as new_floor returned it to
                \* try_move_player when the handler changed the floor
    rots        \* how many rotate keys were pressed (bounded by MaxRot)

vars == <<variant, g, last, rots>>

Dirs == {<<0, -1>>, <<0, 1>>, <<-1, 0>>, <<1, 0>>}

Op(name, dx, dy, pre, mid) ==
    [op |-> name, dx |-> dx, dy |-> dy,
     floor |-> IF mid.depth # pre.depth THEN {mid} ELSE {}]

\* The Games a run can start with.
QtGames == on_new(GameDraws)
CursesGames == main_start(GameDraws)

Start(v) == IF v = "qt" THEN QtGames ELSE CursesGames

Init ==
    /\ variant \in Variants
    /\ g \in Start(variant)
    /\ last = Op("new", 0, 0, g, g)
    /\ rots = 0

\* Whether the front end takes a turn-consuming key: the curses program has
\* left its loop once the game is over; the model stops at MaxTurn.
Accepts ==
    IF variant = "qt" THEN g.over \/ g.turn < MaxTurn
    ELSE ~g.over /\ g.turn < MaxTurn

Move ==
    /\ Accepts
    /\ \E d \in Dirs :
         \E o \in (IF variant = "qt"
                   THEN action_or_move(g, d[1], d[2], FloorDraws)
                   ELSE main_move(g, d[1], d[2], FloorDraws)) :
            /\ g' = o.post
            /\ last' = Op("move", d[1], d[2], g, o.mid)
    /\ UNCHANGED <<variant, rots>>

Wait ==
    /\ Accepts
    /\ \E o \in (IF variant = "qt"
                 THEN action_or_move(g, 0, 0, FloorDraws)
                 ELSE main_move(g, 0, 0, FloorDraws)) :
          /\ g' = o.post
          /\ last' = Op("wait", 0, 0, g, o.mid)
    /\ UNCHANGED <<variant, rots>>

Rest ==
    /\ Accepts
    /\ \E o \in (IF variant = "qt" THEN on_rest(g) ELSE main_rest(g)) :
          /\ g' = o.post
          /\ last' = Op("rest", 0, 0, g, o.mid)
    /\ UNCHANGED <<variant, rots>>

Quaff ==
    /\ Accepts
    /\ \E o \in (IF variant = "qt" THEN on_potion(g) ELSE main_potion(g)) :
          /\ g' = o.post
          /\ last' = Op("quaff", 0, 0, g, o.mid)
    /\ UNCHANGED <<variant, rots>>

Rotate ==
    /\ variant = "qt"
    /\ rots < MaxRot
    /\ \E delta \in {-15, 15} :
         \E o \in key_rotate(g, delta) :
            /\ g' = o.post
            /\ last' = Op("rotate", delta, 0, g, o.mid)
    /\ rots' = rots + 1
    /\ UNCHANGED variant

NewGame ==
    /\ variant = "qt"
    /\ \E n \in QtGames :
          /\ g' = n
          /\ last' = Op("new", 0, 0, n, n)
    /\ UNCHANGED <<variant, rots>>

Next == Move \/ Wait \/ Rest \/ Quaff \/ Rotate \/ NewGame

Spec == Init /\ [][Next]_vars

(***************************************************************************)
(* Properties.  In a step, g is the Game before the handler and g' the one *)
(* it leaves; last' names the handler that ran.                            *)
(***************************************************************************)
TurnOps == {"move", "wait", "rest", "quaff"}

\* The cell a move (or a wait, dx = dy = 0) of the player of g aims at.
Dest(dx, dy) ==
    <<Max(0, Min(MAP_W - 1, g.player.x + dx)),
      Max(0, Min(MAP_H - 1, g.player.y + dy))>>

\* C1: whenever a key handler has returned with the player's hp <= 0, the
\* game-over flag is set (no state in which the next key is read has
\* hp <= 0 and over = FALSE).
C1_DeadIsOver == g.player.hp <= 0 => g.over

\* C2: once over is set, every handler but new game leaves the whole Game
\* as it was.
C2_GameOverNoOp == [][(g.over /\ last'.op # "new") => g' = g]_vars

\* C3: no two living monsters stand on the same cell.
C3_NoDuplicateOccupancy ==
    \A i, j \in 1 .. Len(g.mobs) :
        (/\ i # j
         /\ g.mobs[i].alive
         /\ g.mobs[j].alive) => <<g.mobs[i].x, g.mobs[i].y>> # <<g.mobs[j].x, g.mobs[j].y>>

\* C4: a move whose destination cell is a wall costs no turn: the turn
\* counter, the monsters and the log are as they were.
C4_WallBumpIgnored ==
    [][(/\ ~g.over
        /\ last'.op = "move"
        /\ g.grid[Dest(last'.dx, last'.dy)] = WALL)
       => (g'.turn = g.turn /\ g'.mobs = g.mobs /\ g'.log = g.log)]_vars

\* C5: every turn-consuming handler that runs while the game is not over
\* advances the turn counter by exactly 1.
C5_OneTurnPerAction ==
    [][(~g.over /\ last'.op \in TurnOps) => g'.turn = g.turn + 1]_vars

\* Whether the handler of a move by (dx, dy) (a wait: dx = dy = 0) brings the
\* player of g onto the stairs cell: the game is not over, the cell aimed
\* at is no wall, no living monster stands on it, and it is the stairs cell.
Arrives(dx, dy) ==
    /\ ~g.over
    /\ g.grid[Dest(dx, dy)] # WALL
    /\ \A i \in 1 .. Len(g.mobs) :
           ~(g.mobs[i].alive /\ <<g.mobs[i].x, g.mobs[i].y>> = Dest(dx, dy))
    /\ Dest(dx, dy) = g.stairs

\* What a floor transition is to leave alone of the player p.
Kept(p) ==
    <<p.hp, p.max_hp, p.level, p.xp, p.next_xp, p.atk, p.par, p.potions, p.attrs>>

\* Whether the floor of the Game m is freshly generated and populated.
FreshFloor(m) ==
    /\ \E d \in FloorDraws :
           make_map(d.map) = [grid |-> m.grid, rooms |-> m.rooms]
    /\ <<m.player.x, m.player.y>> = center(m.rooms[1])
    /\ m.stairs = center(m.rooms[Len(m.rooms)])
    /\ Len(m.mobs) <= NumMobs
    /\ \A i \in 1 .. Len(m.mobs) :
           /\ m.mobs[i].alive /\ m.mobs[i].fresh
           /\ m.mobs[i].hp = ENEMIES(m.mobs[i].name).hp
           /\ m.mobs[i].max_hp = m.mobs[i].hp
           /\ m.grid[<<m.mobs[i].x, m.mobs[i].y>>] = FLOOR
           /\ <<m.mobs[i].x, m.mobs[i].y>> \notin {m.stairs, <<m.player.x, m.player.y>>}
    /\ Len(m.items) <= NumItems
    /\ \A i \in 1 .. Len(m.items) :
           /\ m.grid[<<m.items[i][1], m.items[i][2]>>] = FLOOR
           /\ <<m.items[i][1], m.items[i][2]>> \notin {m.stairs, <<m.player.x, m.player.y>>}

\* C6: within a run (every handler but new game) the depth changes exactly
\* when the handler's move or wait brings the player onto the stairs cell;
\* the Game that new_floor then returns has the depth raised by exactly 1, a
\* freshly generated and populated floor, and the player's hp, max hp, level,
\* xp, xp threshold, attack, parry, potions, attributes and facing (the one
\* the move gave) as they were; the depth never decreases.
C6_FloorTransition ==
    [][last'.op # "new" =>
        LET arr == last'.op \in {"move", "wait"} /\ Arrives(last'.dx, last'.dy)
            facing == IF variant = "qt" /\ <<last'.dx, last'.dy>> # <<0, 0>>
                      THEN atan2(last'.dy, last'.dx) ELSE g.player.angle
        IN  /\ (g'.depth # g.depth) <=> arr
            /\ (last'.floor # {}) <=> arr
            /\ g'.depth >= g.depth
            /\ \A m \in last'.floor :
                   /\ m.depth = g.depth + 1
                   /\ g'.depth = m.depth
                   /\ Kept(m.player) = Kept(g.player)
                   /\ m.player.angle = facing
                   /\ FreshFloor(m)]_vars

\* C6: a move has brought the player onto the stairs of a two-room floor.
C6_Witness == last.op = "move" /\ last.floor # {} /\ g.depth = 2

\* C7 as claimed: in the Game that new_floor returns to try_move_player the
\* explored set is empty.
C7_ExploredEmptyAfterTransition == \A m \in last.floor : m.explored = {}

\* C7 as amended: in the Game that new_floor returns to try_move_player the
\* explored set holds nothing of the floor left behind: it is empty in the
\* curses front end, and in the Qt front end (whose new_floor ends with
\* update_visibility) it is exactly the visible set computed at the new
\* start cell, which holds that cell and no cell beyond the radius.
C7_ExploredResetAfterTransition ==
    \A m \in last.floor :
        IF variant = "qt"
        THEN /\ m.explored = m.visible
             /\ <<m.player.x, m.player.y>> \in m.explored
             /\ \A c \in m.explored :
                    (c[1] - m.player.x) * (c[1] - m.player.x)
                    + (c[2] - m.player.y) * (c[2] - m.player.y)
                        <= FOV_RADIUS * FOV_RADIUS
        ELSE m.explored = {}

\* C7: the Qt player has walked onto the stairs of a two-room floor.
C7_Witness == variant = "qt" /\ last.floor # {} /\ last.op = "move" /\ last.dx = 1

\* C8: the visible set is a subset of the explored set whenever a handler
\* has returned, and a handler that is not new game and leaves the depth as
\* it was removes no cell from explored.
C8_ExploredGrows ==
    /\ [](g.visible \subseteq g.explored)
    /\ [][(last'.op # "new" /\ g'.depth = g.depth)
           => g.explored \subseteq g'.explored]_vars

\* C8: after a move on the first floor, explored holds cells that are no
\* longer visible.
C8_Witness ==
    /\ last.op = "move" /\ g.depth = 1
    /\ g.visible # g.explored /\ g.visible \subseteq g.explored

(***************************************************************************)
(* The visibility specification: fov as a function of the grid and of the  *)
(* origin.  Its Game holds the fields that fov, update_visibility and draw *)
(* read and write; the grid is floor but for a set of wall cells drawn     *)
(* from a block of the map, the origin any cell of the map.                *)
(***************************************************************************)
FovBlock == (2 .. 4) \X (2 .. 3)

FovGrids == {[c \in Cells |-> IF c \in w THEN WALL ELSE FLOOR] : w \in SUBSET FovBlock}

InitFov ==
    /\ variant \in Variants
    /\ \E w \in FovGrids, o \in Cells :
          g = [grid |-> w, player |-> [x |-> o[1], y |-> o[2]],
               visible |-> {}, explored |-> {}]
    /\ last = [op |-> "none", dx |-> 0, dy |-> 0, floor |-> {}]
    /\ rots = 0

Look ==
    /\ last.op = "none"
    /\ g' = IF variant = "qt" THEN update_visibility("qt", g) ELSE draw(g)
    /\ last' = [last EXCEPT !.op = "look"]
    /\ UNCHANGED <<variant, rots>>

NextFov == Look

SpecFov == InitFov /\ [][NextFov]_vars

\* The cells of the Bresenham line from o to c strictly after o and strictly
\* before c.
Between(o, c) ==
    LET line == bresenham_line(o[1], o[2], c[1], c[2])
    IN  {line[k] : k \in 2 .. Len(line) - 1}

\* C9: the visible set computed from the origin o is exactly the set of the
\* cells c of the map within the radius of o (squared distance <= radius^2)
\* such that every cell of the Bresenham line strictly between o and c is
\* on the map and no wall; it holds o; a wall cell with a clear line is in
\* it, and no cell behind a wall is.
C9_FovExact ==
    last.op = "look" =>
        LET o == <<g.player.x, g.player.y>>
            near(c) == (c[1] - o[1]) * (c[1] - o[1]) + (c[2] - o[2]) * (c[2] - o[2])
                           <= FOV_RADIUS * FOV_RADIUS
            clear(c) == \A b \in Between(o, c) : b \in Cells /\ g.grid[b] # WALL
        IN  /\ g.visible = {c \in Cells : near(c) /\ clear(c)}
            /\ o \in g.visible
            /\ \A c \in Cells :
                   (\E b \in Between(o, c) : b \in Cells /\ g.grid[b] = WALL)
                       => c \notin g.visible

\* C9: a visibility computation that sees a wall cell and misses a cell
\* within the radius, behind a wall.
C9_Witness ==
    /\ last.op = "look"
    /\ \E c \in g.visible : g.grid[c] = WALL
    /\ \E c \in Cells \ g.visible :
           (c[1] - g.player.x) * (c[1] - g.player.x)
           + (c[2] - g.player.y) * (c[2] - g.player.y) <= FOV_RADIUS * FOV_RADIUS

\* C10: the player's hp is at most max hp.
C10_HpAtMostMax == g.player.hp <= g.player.max_hp

\* C10: the player has levelled up and stands at full hp.
C10_Witness == g.player.level > 1 /\ g.player.hp = g.player.max_hp

(***************************************************************************)
(* The experience specification: award_xp as a function of the player and  *)
(* of the amount.  The Game is the one of a new game, its player at any    *)
(* level up to MaxLevel with the stats that level gives, any xp below the  *)
(* threshold and full or reduced hp; the amount is the xp of an enemy      *)
(* template, 0, or 75.                                                     *)
(***************************************************************************)
MaxLevel == 3

XpAwards == {0, 75} \cup {ENEMIES(k).xp : k \in {"goblin", "orc", "wolf", "archer", "troll"}}

\* The player p at the level l with xp x and hp h below max hp.
PlayerAt(p, l, x, h) ==
    [p EXCEPT !.level = l, !.xp = x, !.next_xp = xp_threshold(l),
              !.max_hp = p.max_hp + 4 * (l - 1),
              !.atk = p.atk + (l - 1),
              !.par = p.par + l \div 2,
              !.hp = p.max_hp + 4 * (l - 1) - h]

InitXp ==
    /\ variant \in Variants
    /\ \E b \in Start(variant), l \in 1 .. MaxLevel, h \in {0, 3, 10} :
         \E x \in 0 .. xp_threshold(l) - 1 :
            /\ Len(b.rooms) = 1
            /\ g = [b EXCEPT !.player = PlayerAt(b.player, l, x, h)]
    /\ last = [op |-> "none", dx |-> 0, dy |-> 0, floor |-> {}]
    /\ rots = 0

AwardXp ==
    /\ last.op = "none"
    /\ \E a \in XpAwards :
          /\ g' = award_xp(g, a)
          /\ last' = [last EXCEPT !.op = "award", !.dx = a]
    /\ UNCHANGED <<variant, rots>>

NextXp == AwardXp

SpecXp == InitXp /\ [][NextXp]_vars

\* The xp that k level-ups from the level l on cost: the sum of the
\* thresholds 20 + 10 * j of the levels j = l .. l + k - 1.
LevelCost(l, k) == k * (20 + 10 * l + 5 * (k - 1))

\* C11: award_xp of the amount a applies every level-up owed: with k the
\* number of thresholds that xp + a pays for, the level rises by k, xp is
\* what is left, the threshold is 20 + 10 * level, max hp rises by 4 k,
\* attack by k, parry by the number of even levels reached, hp by 4 k capped
\* at the new max hp; afterwards 0 <= xp < next_xp; the level never
\* decreases; 75 xp at level 1 (threshold 30, xp 0) give two level-ups with
\* 5 xp left, attack + 2 and max hp + 8.
C11_AwardXp ==
    [][last'.op = "award" =>
        LET p == g.player
            q == g'.player
            total == p.xp + last'.dx
            k == q.level - p.level
        IN  /\ k >= 0
            /\ LevelCost(p.level, k) <= total
            /\ total < LevelCost(p.level, k + 1)
            /\ q.xp = total - LevelCost(p.level, k)
            /\ 0 <= q.xp /\ q.xp < q.next_xp
            /\ q.next_xp = 20 + 10 * q.level
            /\ q.max_hp = p.max_hp + 4 * k
            /\ q.atk = p.atk + k
            /\ q.par = p.par + Cardinality({j \in p.level + 1 .. q.level : j % 2 = 0})
            /\ q.hp = Min(q.max_hp, p.hp + 4 * k)
            /\ (p.level = 1 /\ p.xp = 0 /\ last'.dx = 75) =>
                   /\ q.level = 3 /\ q.xp = 5
                   /\ q.atk = p.atk + 2 /\ q.max_hp = p.max_hp + 8]_vars

\* C11: 75 xp awarded at level 1 with no xp have given two level-ups.
C11_Witness ==
    /\ last.op = "award" /\ last.dx = 75
    /\ g.player.level = 3 /\ g.player.xp = 5 /\ g.player.next_xp = 50

(***************************************************************************)
(* The attack specification: player_attack, called again and again on one  *)
(* monster until it is dead, with every face of the dice.  The Game is the *)
(* one of a new game with its monsters replaced by one fresh monster of    *)
(* any kind left of the player; last.dr holds the draws of the attack.     *)
(***************************************************************************)
Kinds == {"goblin", "orc", "wolf", "archer", "troll"}

\* The draws of player_attack: roll(1, 20), roll(1, 2) and roll(1, 3).
AttackDraws == [d : 1 .. 20, o : 1 .. 2, b : 1 .. 3]

InitAttack ==
    /\ variant \in Variants
    /\ \E b \in Start(variant), k \in Kinds :
          /\ Len(b.rooms) = 1
          /\ g = [b EXCEPT !.mobs = <<Entity(CellLeft[1], CellLeft[2], k)>>]
    /\ last = [op |-> "none", dx |-> 0, dy |-> 0, floor |-> {}, dr |-> <<>>]
    /\ rots = 0

Attack ==
    /\ g.mobs[1].alive
    /\ \E dr \in AttackDraws :
          /\ g' = player_attack_draws(g, 1, dr)
          /\ last' = [op |-> "attack", dx |-> -1, dy |-> 0, floor |-> {}, dr |-> dr]
    /\ UNCHANGED <<variant, rots>>

NextAttack == Attack

SpecAttack == InitAttack /\ [][NextAttack]_vars

\* C12: in an attack on the monster m (m' after it), a hit being an attack
\* that lowers m's hp: a cleared fresh flag is never set again, a miss
\* leaves the flag as it is, a hit clears it, and the damage of a hit holds
\* the opener roll exactly when the flag was set before the hit.
C12_OpenerOnce ==
    [][last'.op = "attack" =>
        LET m == g.mobs[1]
            n == g'.mobs[1]
            hit == n.hp < m.hp
            kk_bonus == Max(0, FloorDiv(g.player.attrs["KK"] - 10, 2))
        IN  /\ ~m.fresh => ~n.fresh
            /\ (m.fresh /\ ~hit) => n.fresh
            /\ hit => ~n.fresh
            /\ hit => m.hp - n.hp = 2 + last'.dr.b + kk_bonus
                                      + (IF m.fresh THEN last'.dr.o ELSE 0)
            /\ Len(g'.mobs) = 1]_vars

\* C12: a monster that was hit before has been hit again and lives.
C12_Witness ==
    /\ last.op = "attack"
    /\ g.mobs[1].alive /\ ~g.mobs[1].fresh
    /\ g.mobs[1].max_hp - g.mobs[1].hp > 2 + 3 + 2 + Max(0, FloorDiv(g.player.attrs["KK"] - 10, 2))

\* The most damage the living monsters of mobs[i .. ] deal in one turn,
\* each attacking once.
RECURSIVE LivingDamage(_, _)
LivingDamage(mobs, i) ==
    IF i > Len(mobs) THEN 0
    ELSE (IF mobs[i].alive THEN mobs[i].dmg[2] ELSE 0) + LivingDamage(mobs, i + 1)

MaxPotions == 2

InitPotion ==
    /\ variant \in Variants
    /\ \E d \in GameDraws, ko \in 8 .. 14, n \in 0 .. MaxPotions :
         LET b == new_game(variant, [d EXCEPT !.attrs["KO"] = ko])
         IN  /\ d \in floor_draws(variant, 1, GameDraws)
             /\ Len(b.rooms) = 1
             /\ \E h \in 1 .. b.player.max_hp :
                   g = [b EXCEPT !.player.potions = n, !.player.hp = h]
    /\ last = [op |-> "none", dx |-> 0, dy |-> 0, floor |-> {}]
    /\ rots = 0

UsePotion ==
    /\ g' = use_potion(g)
    /\ last' = [last EXCEPT !.op = "potion"]
    /\ UNCHANGED <<variant, rots>>

NextPotion == UsePotion

SpecPotion == InitPotion /\ [][NextPotion]_vars

\* C14: use_potion with no potion changes nothing of the Game; with a
\* potion it takes exactly one and sets hp to
\* min(max_hp, hp + max(4, 6 + max(0, floor((KO - 10) / 2)))); the number
\* of potions is never negative.
C14_UsePotion ==
    /\ [](g.player.potions >= 0)
    /\ [][last'.op = "potion" =>
            LET p == g.player
                half == IF p.attrs["KO"] >= 10 THEN (p.attrs["KO"] - 10) \div 2 ELSE 0
                heal == IF 6 + half >= 4 THEN 6 + half ELSE 4
            IN  IF p.potions = 0
                THEN g' = g
                ELSE /\ g'.player.potions = p.potions - 1
                     /\ g'.player.hp = (IF p.hp + heal <= p.max_hp
                                        THEN p.hp + heal ELSE p.max_hp)
                     /\ [g'.player EXCEPT !.potions = 0, !.hp = 0]
                            = [p EXCEPT !.potions = 0, !.hp = 0]]_vars

\* C14: the last potion has been used by a wounded player, who is not at
\* full hp after it.
C14_Witness ==
    /\ last.op = "potion"
    /\ g.player.potions = 0
    /\ Len(g.log) > 1
    /\ g.player.hp < g.player.max_hp

\* C15: the Game that a new game leaves (from any state, the game over or
\* not) is at depth 1, turn 1, not over, the player at level 1 with no xp,
\* the threshold 30, no potions and full hp, on a freshly generated and
\* populated floor (the player on the centre of the first room, the stairs
\* on the centre of the last), the log holding the entering line alone.
C15_NewGameIsFresh ==
    last.op = "new" =>
        /\ g.depth = 1 /\ g.turn = 1 /\ ~g.over
        /\ g.player.level = 1 /\ g.player.xp = 0 /\ g.player.next_xp = 30
        /\ g.player.potions = 0
        /\ g.player.hp = g.player.max_hp
        /\ FreshFloor(g)
        /\ g.log = <<Msg("enter", "", 0)>>

\* C15: a new game has been started after a key was handled in the game
\* before it.
C15_Witness == last.op = "new" /\ rots > 0

\* C16: the rotate key changes the facing angle by its delta (modulo the
\* full circle) and nothing else of the Game: the turn counter, the
\* player's position and hp, the monsters, the items, the depth, the log
\* and the game-over flag are as they were.
C16_RotateIsFree ==
    [][last'.op = "rotate" =>
        /\ g'.player.angle = (g.player.angle + last'.dx) % 360
        /\ [g' EXCEPT !.player.angle = 0] = [g EXCEPT !.player.angle = 0]]_vars

\* C16: the rotate key was pressed in a game under way, next to living
\* monsters.
C16_Witness ==
    /\ last.op = "rotate"
    /\ g.turn > 1 /\ ~g.over
    /\ \E i \in 1 .. Len(g.mobs) : g.mobs[i].alive

\* C17: the facing angle lies in [0, 360) degrees.
C17_AngleInRange == 0 <= g.player.angle /\ g.player.angle < 360

(***************************************************************************)
(* The move specification: try_move_player called directly, again and      *)
(* again, with no end of turn between the calls (no monster acts), until   *)
(* the player has gone down MaxDescents floors.                            *)
(***************************************************************************)
MaxDescents == 1

TryMove ==
    /\ g.depth <= MaxDescents
    /\ \E d \in Dirs \cup {<<0, 0>>} :
         \E m \in try_move_player(variant, g, d[1], d[2], FloorDraws) :
            /\ g' = m
            /\ last' = Op("try_move", d[1], d[2], g, m)
    /\ UNCHANGED <<variant, rots>>

NextMove == TryMove

SpecMove == Init /\ [][NextMove]_vars

\* C18: try_move_player towards a wall cell leaves the player's position,
\* the turn counter, the depth, hp, potions, the monsters, the items and
\* the log as they were (and all the rest of the Game but the facing).
C18_WallLeavesGame ==
    [][(last'.op = "try_move" /\ g.grid[Dest(last'.dx, last'.dy)] = WALL) =>
        /\ <<g'.player.x, g'.player.y>> = <<g.player.x, g.player.y>>
        /\ g'.turn = g.turn /\ g'.depth = g.depth
        /\ g'.player.hp = g.player.hp /\ g'.player.potions = g.player.potions
        /\ g'.mobs = g.mobs /\ g'.items = g.items /\ g'.log = g.log
        /\ [g' EXCEPT !.player.angle = 0] = [g EXCEPT !.player.angle = 0]]_vars

\* C18: on the first floor, with the potion above the start cell still
\* lying there, the player on the start cell has been moved down, towards
\* the wall below it.
C18_Witness ==
    /\ last.op = "try_move" /\ last.dy = 1
    /\ <<g.player.x, g.player.y>> = StartA
    /\ g.depth = 1 /\ g.items # <<>>
    /\ g.grid[<<g.player.x, g.player.y + 1>>] = WALL

(***************************************************************************)
(* The map specification: make_map, one iteration of its loop at a time,   *)
(* on every room that rint can draw.  g = [grid, rooms, n] is the state    *)
(* of the loop after n iterations; the function returns when n is          *)
(* MAX_ROOMS.  The coin is tossed only for an accepted room after the      *)
(* first.                                                                  *)
(***************************************************************************)
RoomDraws(m) ==
    {d \in [w : ROOM_MIN .. ROOM_MAX, h : ROOM_MIN .. ROOM_MAX,
            x : 1 .. MAP_W - ROOM_MIN - 2, y : 1 .. MAP_H - ROOM_MIN - 2,
            coin : BOOLEAN] :
        /\ d.x <= MAP_W - d.w - 2
        /\ d.y <= MAP_H - d.h - 2
        /\ d.coin => /\ m.rooms # <<>>
                     /\ \A i \in 1 .. Len(m.rooms) :
                            ~rooms_overlap(d.x, d.y, d.w, d.h, m.rooms[i])}

InitMap ==
    /\ variant \in Variants
    /\ g = [grid |-> [c \in Cells |-> WALL], rooms |-> <<>>, n |-> 0]
    /\ last = [op |-> "none", d |-> <<>>]
    /\ rots = 0

MakeRoom ==
    /\ g.n < MAX_ROOMS
    /\ \E d \in RoomDraws(g) :
         LET m == make_map_step([grid |-> g.grid, rooms |-> g.rooms], d)
         IN  /\ g' = [grid |-> m.grid, rooms |-> m.rooms, n |-> g.n + 1]
             /\ last' = [op |-> "room", d |-> <<d>>]
    /\ UNCHANGED <<variant, rots>>

NextMap == MakeRoom

SpecMap == InitMap /\ [][NextMap]_vars

\* The cells of the room r = (x, y, w, h).
Interior(r) == (r[1] .. r[1] + r[3] - 1) \X (r[2] .. r[2] + r[4] - 1)

\* C19: what make_map returns is a grid of MAP_W * MAP_H cells, each a
\* wall or a floor, and between 1 and MAX_ROOMS rooms, each inside the
\* grid with all its cells floor, no two of them sharing a cell.
C19_MakeMap ==
    g.n = MAX_ROOMS =>
        /\ DOMAIN g.grid = Cells
        /\ Cardinality(DOMAIN g.grid) = MAP_W * MAP_H
        /\ \A c \in Cells : g.grid[c] \in {WALL, FLOOR}
        /\ Len(g.rooms) \in 1 .. MAX_ROOMS
        /\ \A i \in 1 .. Len(g.rooms) :
              /\ Interior(g.rooms[i]) \subseteq Cells
              /\ \A c \in Interior(g.rooms[i]) : g.grid[c] = FLOOR
        /\ \A i, j \in 1 .. Len(g.rooms) :
              i # j => Interior(g.rooms[i]) \cap Interior(g.rooms[j]) = {}

\* C19: make_map has returned, with every one of its MAX_ROOMS draws
\* accepted as a room.
C19_Witness ==
    /\ g.n = MAX_ROOMS
    /\ Len(g.rooms) = MAX_ROOMS
    /\ last.op = "room"

(***************************************************************************)
(* The spawn specification: spawn_mobs_items on a generated floor that is  *)
(* not populated yet.  The range(7) and range(12) of its two loops are     *)
(* NumItems and NumMobs here.  Every placement loop draws one of:  a free  *)
(* floor cell at once;  a wall cell, then a free cell;  the start cell,    *)
(* the stairs cell, then a free cell;  a wall cell at every attempt, until *)
(* the loop gives up (the Qt copy only: the curses loop never gives up).   *)
(***************************************************************************)
WallCell == <<1, MAP_H - 2>>

SpawnTries(m, limit) ==
    LET start == center(m.rooms[1])
        end == center(m.rooms[Len(m.rooms)])
    IN  {<<CellUp>>, <<WallCell, CellLeft>>, <<start, end, CellDiag>>,
         [k \in 1 .. limit |-> WallCell]}

SpawnDraws(v, m) ==
    LET bag == depth_spawn_bag(m.depth)
    IN  {d \in [items : [1 .. NumItems -> SpawnTries(m, ITEM_TRIES)],
                mobs : UNION {[1 .. NumMobs ->
                                  [tries : SpawnTries(m, MOB_TRIES), kind : {k}]] :
                              k \in {bag[1], bag[Len(bag)]}}] :
            spawn_draws_ok(v, m.depth, m, d)}

InitSpawn ==
    /\ variant \in Variants
    /\ \E md \in MapDraws :
         LET m == make_map(md)
         IN  g = [depth |-> 1, grid |-> m.grid, rooms |-> m.rooms,
                  player |-> [x |-> 1, y |-> 1], stairs |-> <<0, 0>>,
                  mobs |-> <<>>, items |-> <<>>]
    /\ last = [op |-> "none"]
    /\ rots = 0

Populate ==
    /\ last.op = "none"
    /\ \E d \in SpawnDraws(variant, g) : g' = spawn_mobs_items(variant, g, d)
    /\ last' = [op |-> "spawn"]
    /\ UNCHANGED <<variant, rots>>

NextSpawn == Populate

SpecSpawn == InitSpawn /\ [][NextSpawn]_vars

\* Whether the cell c is an in-bounds floor cell of m that is neither the
\* player's cell nor the stairs cell.
FreeFloor(m, c) ==
    /\ c \in Cells
    /\ m.grid[c] = FLOOR
    /\ c \notin {<<m.player.x, m.player.y>>, m.stairs}

\* C20: after spawn_mobs_items the player stands on the centre of the first
\* room and the stairs are on the centre of the last room, there are at
\* most NumItems items and NumMobs monsters (7 and 12 in the source), and
\* every item and every monster is on an in-bounds floor cell that is
\* neither the start cell nor the stairs cell.
C20_Populated ==
    last.op = "spawn" =>
        /\ <<g.player.x, g.player.y>> = center(g.rooms[1])
        /\ g.stairs = center(g.rooms[Len(g.rooms)])
        /\ Len(g.items) <= NumItems
        /\ Len(g.mobs) <= NumMobs
        /\ \A i \in 1 .. Len(g.items) :
               FreeFloor(g, <<g.items[i][1], g.items[i][2]>>)
        /\ \A i \in 1 .. Len(g.mobs) :
               FreeFloor(g, <<g.mobs[i].x, g.mobs[i].y>>)

\* C20: a floor of two rooms is populated, a monster was placed after the
\* draws of the start cell and of the stairs cell were rejected, and a
\* placement loop gave up, leaving fewer monsters than NumMobs.
C20_Witness ==
    /\ last.op = "spawn"
    /\ Len(g.rooms) = 2
    /\ g.items # <<>>
    /\ \E i \in 1 .. Len(g.mobs) : <<g.mobs[i].x, g.mobs[i].y>> = CellDiag
    /\ Len(g.mobs) \in 1 .. NumMobs - 1

(***************************************************************************)
(* The attempts specification: spawn_mobs_items as in SpecSpawn, with the  *)
(* number of position draws that each placement loop made kept in last.    *)
(* Besides the draws of SpawnTries a loop can draw a wall cell as many     *)
(* times as the Qt loop has attempts and a free cell after them: the Qt    *)
(* loop has given up before the free cell, the curses loop draws it.       *)
(***************************************************************************)
\* The position draws that one placement loop makes on the draws tries.
draws_used(v, grid, start, end, tries, limit) ==
    LET n == try_limit(v, limit, tries)
        k == spawn_try(grid, start, end, tries, 1, n)
    IN  IF k = 0 THEN Min(n, Len(tries)) ELSE k

LongTries(m, limit) ==
    SpawnTries(m, limit) \cup
    {[k \in 1 .. limit + 1 |-> IF k <= limit THEN WallCell ELSE CellLeft]}

LongDraws(v, m) ==
    {d \in [items : [1 .. NumItems -> LongTries(m, ITEM_TRIES)],
            mobs : [1 .. NumMobs ->
                       [tries : LongTries(m, MOB_TRIES),
                        kind : {depth_spawn_bag(m.depth)[1]}]]] :
        spawn_draws_ok(v, m.depth, m, d)}

PopulateCount ==
    /\ last.op = "none"
    /\ \E d \in LongDraws(variant, g) :
         LET start == center(g.rooms[1])
             end == center(g.rooms[Len(g.rooms)])
         IN  /\ g' = spawn_mobs_items(variant, g, d)
             /\ last' = [op |-> "spawn",
                         items |-> [i \in 1 .. NumItems |->
                                      draws_used(variant, g.grid, start, end,
                                                 d.items[i], ITEM_TRIES)],
                         mobs |-> [i \in 1 .. NumMobs |->
                                      draws_used(variant, g.grid, start, end,
                                                 d.mobs[i].tries, MOB_TRIES)]]
    /\ UNCHANGED <<variant, rots>>

NextTries == PopulateCount

SpecTries == InitSpawn /\ [][NextTries]_vars

\* C21: in both variants every item placement of spawn_mobs_items makes at
\* most ITEM_TRIES position draws and every monster placement at most
\* MOB_TRIES.
C21_AttemptsBounded ==
    last.op = "spawn" =>
        /\ \A i \in 1 .. NumItems : last.items[i] <= ITEM_TRIES
        /\ \A i \in 1 .. NumMobs : last.mobs[i] <= MOB_TRIES

\* C22 (as claimed): after a handler that changed the floor the player is on
\* the cell it held when the transition was triggered, the stairs cell of
\* the floor it left.
C22_PositionPersists ==
    [][last'.floor # {} =>
        <<g'.player.x, g'.player.y>> = g.stairs]_vars

\* C22 (amended): after a handler that changed the floor the player is on
\* the centre of the first room of the new floor, where spawn_mobs_items
\* put it, in the Game that new_floor returned and at the end of the
\* handler.
C22_PositionIsNewStart ==
    [][last'.floor # {} =>
        /\ <<g'.player.x, g'.player.y>> = center(g'.rooms[1])
        /\ \A m \in last'.floor :
               <<m.player.x, m.player.y>> = center(m.rooms[1])]_vars

\* C22: the player has come down to a floor of two rooms and stands on the
\* centre of its first room, away from the stairs.
C22_Witness ==
    /\ last.floor # {}
    /\ g.depth > 1
    /\ Len(g.rooms) = 2
    /\ <<g.player.x, g.player.y>> = center(g.rooms[1])
    /\ <<g.player.x, g.player.y>> # g.stairs

(***************************************************************************)
(* The hit specification: one call of player_attack with every face of    *)
(* the dice, by a player whose KK and GE were rolled low, middle or high,  *)
(* on a monster that is fresh or not, unhurt or at its last hit point.     *)
(***************************************************************************)
InitHit ==
    /\ variant \in Variants
    /\ \E d \in GameDraws, kk \in {8, 11, 14}, ge \in {8, 14},
          k \in {"goblin", "troll"}, f \in BOOLEAN, low \in BOOLEAN :
         LET b == new_game(variant, [d EXCEPT !.attrs["KK"] = kk,
                                              !.attrs["GE"] = ge])
             e == Entity(CellLeft[1], CellLeft[2], k)
         IN  /\ d \in floor_draws(variant, 1, GameDraws)
             /\ Len(b.rooms) = 1
             /\ g = [b EXCEPT !.mobs = <<[e EXCEPT !.fresh = f,
                                            !.hp = IF low THEN 1 ELSE @]>>]
    /\ last = [op |-> "none", dx |-> 0, dy |-> 0, floor |-> {}, dr |-> <<>>]
    /\ rots = 0

Hit ==
    /\ last.op = "none"
    /\ \E dr \in AttackDraws :
          /\ g' = player_attack_draws(g, 1, dr)
          /\ last' = [op |-> "attack", dx |-> -1, dy |-> 0, floor |-> {}, dr |-> dr]
    /\ UNCHANGED <<variant, rots>>

NextHit == Hit

SpecHit == InitHit /\ [][NextHit]_vars

\* C23: player_attack on the monster m (n after it) with the draws d, o, b
\* hits, lowering m's hp, exactly when d <= max(3, attack - 2); a hit takes
\* max(1, 2 + b + max(0, floor((KK - 10) / 2)) + opener) from the hp, the
\* opener being o for a fresh monster and 0 otherwise; a miss leaves hp,
\* alive and fresh as they were.
C23_HitAndDamage ==
    [][last'.op = "attack" =>
        LET m == g.mobs[1]
            n == g'.mobs[1]
            dr == last'.dr
            hit == dr.d <= Max(3, g.player.atk - 2)
            kk_bonus == Max(0, FloorDiv(g.player.attrs["KK"] - 10, 2))
            opener == IF m.fresh THEN dr.o ELSE 0
        IN  /\ hit <=> n.hp < m.hp
            /\ hit => m.hp - n.hp = Max(1, 2 + dr.b + kk_bonus + opener)
            /\ ~hit => n.hp = m.hp /\ n.alive = m.alive /\ n.fresh = m.fresh
            /\ hit <=> g'.log[Len(g'.log)].t # "miss"]_vars

\* C23: the d20 draw was the highest that still hits, on a fresh monster,
\* and the monster has lost hit points.
C23_Witness ==
    /\ last.op = "attack"
    /\ last.dr.d = Max(3, g.player.atk - 2)
    /\ g.mobs[1].hp < g.mobs[1].max_hp - 1
    /\ g.mobs[1].alive

(***************************************************************************)
(* The enemy attack specification: one call of enemy_attack_player by a    *)
(* monster of any kind next to the player, with every face of both d20     *)
(* and the lowest, middle and highest damage, on a player whose GE and MU  *)
(* (hence parry) were rolled low or high.                                  *)
(***************************************************************************)
EnemyAttackDraws == [d1 : 1 .. 20, d2 : 1 .. 20, r : {"lo", "mid", "hi"}]

InitEnemyAttack ==
    /\ variant \in Variants
    /\ \E d \in GameDraws, ge \in {8, 14}, mu \in {8, 14},
          k \in {"goblin", "archer", "troll"} :
         LET b == new_game(variant, [d EXCEPT !.attrs["GE"] = ge,
                                              !.attrs["MU"] = mu])
         IN  /\ d \in floor_draws(variant, 1, GameDraws)
             /\ Len(b.rooms) = 1
             /\ g = [b EXCEPT !.mobs = <<Entity(CellLeft[1], CellLeft[2], k)>>]
    /\ last = [op |-> "none", dx |-> 0, dy |-> 0, floor |-> {}, dr |-> <<>>]
    /\ rots = 0

EnemyAttack ==
    /\ last.op = "none"
    /\ \E dr \in EnemyAttackDraws :
          /\ g' = enemy_attack_player(g, 1, dr)
          /\ last' = [op |-> "enemy_attack", dx |-> 0, dy |-> 0, floor |-> {},
                      dr |-> dr]
    /\ UNCHANGED <<variant, rots>>

NextEnemyAttack == EnemyAttack

SpecEnemyAttack == InitEnemyAttack /\ [][NextEnemyAttack]_vars

\* C24: enemy_attack_player by the monster m with the d20 draws d1 and d2
\* lowers the player's hp exactly when d1 <= m's attack and d2 > the
\* player's parry; the hp then falls by a value of m's damage range, and
\* otherwise it stays; nothing but the hp and the log changes.
C24_EnemyHit ==
    [][last'.op = "enemy_attack" =>
        LET m == g.mobs[1]
            dr == last'.dr
            hit == dr.d1 <= m.atk /\ dr.d2 > g.player.par
        IN  /\ hit <=> g'.player.hp < g.player.hp
            /\ hit => g.player.hp - g'.player.hp \in m.dmg[1] .. m.dmg[2]
            /\ ~hit => g'.player.hp = g.player.hp
            /\ [g' EXCEPT !.player.hp = 0, !.log = <<>>]
                 = [g EXCEPT !.player.hp = 0, !.log = <<>>]]_vars

\* C24: a troll's attack with both draws at the edge (d1 its attack, d2 one
\* above the parry) took the middle of its damage range from the player.
C24_Witness ==
    /\ last.op = "enemy_attack"
    /\ g.mobs[1].name = "troll"
    /\ last.dr.d1 = g.mobs[1].atk
    /\ last.dr.d2 = g.player.par + 1
    /\ g.player.max_hp - g.player.hp = 4

(***************************************************************************)
(* The ray specification: one ray of FirstPersonWidget.paintEvent, cast    *)
(* from the centre of the player's cell along a grid axis (the middle      *)
(* column of an odd number of columns, the player facing along the axis),  *)
(* one iteration of its DDA loop at a time.  Lengths are whole numbers of  *)
(* FP_MIN_DIST (0.05 cell), UNIT of them to a cell.  The ray is (sx, sy),  *)
(* one component 1 or -1 and the other 0;  for the component that is 0 the *)
(* source divides by 1e-6 instead, a length of INV_TINY cells.  (Where the *)
(* float cosine or sine of the facing is a residue of 1e-16 and not 0, the *)
(* quotient is larger still and every comparison comes out the same.)      *)
(* g holds the grid and the player's cell, last the locals of the loop:    *)
(* n iterations made, reads the cells of the grid read so far.             *)
(***************************************************************************)
UNIT == 20
FP_MIN_DIST == 1
FP_MAX_DIST == 20 * UNIT
MAX_STEPS == 128
INV_TINY == 1000000

\* The DDA setup for the ray (sx, sy) from the centre of the cell (x, y).
ray_setup(x, y, sx, sy) ==
    LET delta_dist_x == IF sx # 0 THEN UNIT ELSE INV_TINY * UNIT
        delta_dist_y == IF sy # 0 THEN UNIT ELSE INV_TINY * UNIT
    IN  [op |-> "cast", sx |-> sx, sy |-> sy,
         map_x |-> x, map_y |-> y,
         delta_dist_x |-> delta_dist_x, delta_dist_y |-> delta_dist_y,
         step_x |-> IF sx < 0 THEN -1 ELSE 1,
         step_y |-> IF sy < 0 THEN -1 ELSE 1,
         side_dist_x |-> delta_dist_x \div 2,
         side_dist_y |-> delta_dist_y \div 2,
         hit |-> FALSE, side |-> 0, dist |-> FP_MAX_DIST,
         n |-> 0, done |-> FALSE, reads |-> {}]

\* The distance to the cell centre, without the half cell of the wall face.
ray_dist_centre(r, x, y) ==
    IF r.side = 0
    THEN (UNIT * (r.map_x - x)) * (IF r.sx # 0 THEN r.sx ELSE INV_TINY)
    ELSE (UNIT * (r.map_y - y)) * (IF r.sy # 0 THEN r.sy ELSE INV_TINY)

\* The perpendicular distance of the wall face that the ray r has hit, the
\* player on the cell (x, y):  a quotient by 1 or -1, or by 1e-6.
ray_dist(r, x, y) ==
    IF r.side = 0
    THEN (UNIT * (r.map_x - x) - UNIT \div 2 + (UNIT * (1 - r.step_x)) \div 2)
             * (IF r.sx # 0 THEN r.sx ELSE INV_TINY)
    ELSE (UNIT * (r.map_y - y) - UNIT \div 2 + (UNIT * (1 - r.step_y)) \div 2)
             * (IF r.sy # 0 THEN r.sy ELSE INV_TINY)

\* One iteration of the DDA loop, and the clamp of the distance that
\* follows a hit.
ray_step(grid, x, y, r) ==
    LET r1 == IF r.side_dist_x < r.side_dist_y
              THEN [r EXCEPT !.side_dist_x = @ + r.delta_dist_x,
                             !.map_x = @ + r.step_x, !.side = 0]
              ELSE [r EXCEPT !.side_dist_y = @ + r.delta_dist_y,
                             !.map_y = @ + r.step_y, !.side = 1]
        r2 == [r1 EXCEPT !.n = @ + 1, !.op = "step"]
        c == <<r2.map_x, r2.map_y>>
        r3 == [r2 EXCEPT !.reads = @ \cup {c}]
    IN  IF ~(0 <= c[1] /\ c[1] < MAP_W /\ 0 <= c[2] /\ c[2] < MAP_H)
        THEN [r2 EXCEPT !.done = TRUE]
        ELSE IF grid[c] = WALL
        THEN [r3 EXCEPT !.hit = TRUE, !.done = TRUE,
                        !.dist = Max(FP_MIN_DIST,
                                     Min(FP_MAX_DIST, Abs(ray_dist(r3, x, y))))]
        ELSE r3

\* The grids of the rays: the generated maps, and the floors with at most
\* one wall cell of the block.
RayGrids ==
    {make_map(md).grid : md \in MapDraws} \cup
    {[c \in Cells |-> IF c \in w THEN WALL ELSE FLOOR] :
        w \in {u \in SUBSET FovBlock : Cardinality(u) <= 1}}

InitRay ==
    /\ variant = "qt"
    /\ \E w \in RayGrids, o \in Cells :
          /\ w[o] = FLOOR
          /\ g = [grid |-> w, player |-> [x |-> o[1], y |-> o[2]]]
    /\ last = [op |-> "none"]
    /\ rots = 0

Cast ==
    /\ last.op = "none"
    /\ \E d \in Dirs : last' = ray_setup(g.player.x, g.player.y, d[1], d[2])
    /\ UNCHANGED <<variant, g, rots>>

RayStep ==
    /\ last.op \in {"cast", "step"}
    /\ ~last.done
    /\ last.n < MAX_STEPS
    /\ last' = ray_step(g.grid, g.player.x, g.player.y, last)
    /\ UNCHANGED <<variant, g, rots>>

NextRay == Cast \/ RayStep

SpecRay == InitRay /\ [][NextRay]_vars

\* The cell k cells from the player along the ray.
RayCell(k) == <<g.player.x + k * last.sx, g.player.y + k * last.sy>>

\* Whether the ray has hit the wall cell k cells away, every cell before it
\* a floor cell of the grid.
RayHitAt(k) ==
    /\ last.op = "step" /\ last.done /\ last.hit
    /\ <<last.map_x, last.map_y>> = RayCell(k)
    /\ \A j \in 1 .. k - 1 : RayCell(j) \in Cells /\ g.grid[RayCell(j)] = FLOOR

\* The parts of C25 that hold whatever the distance: a ray along an axis
\* reads cells of the grid only, makes at most MAX_STEPS steps, hits
\* exactly the first wall cell on its way after as many steps as the cell
\* is away, with side 0 along x and side 1 along y, and reports a distance
\* within [FP_MIN_DIST, FP_MAX_DIST].
RayWalk ==
    last.op \in {"cast", "step"} =>
        /\ last.reads \subseteq Cells
        /\ last.n <= MAX_STEPS
        /\ last.hit => /\ RayHitAt(last.n)
                       /\ g.grid[<<last.map_x, last.map_y>>] = WALL
                       /\ last.side = (IF last.sx # 0 THEN 0 ELSE 1)
                       /\ FP_MIN_DIST <= last.dist /\ last.dist <= FP_MAX_DIST
        /\ (last.done /\ ~last.hit) =>
               \A k \in 1 .. last.n - 1 : g.grid[RayCell(k)] = FLOOR

\* C25 (as claimed): a ray along an axis that meets its first wall cell 3
\* cells away reads cells of the grid only, hits within MAX_STEPS steps
\* with the side of its axis, and reports a perpendicular distance of 3.0
\* cells (to less than FP_MIN_DIST).
C25_DistanceThree ==
    /\ RayWalk
    /\ RayHitAt(3) => Abs(last.dist - 3 * UNIT) < FP_MIN_DIST

\* C25 (amended): as claimed, but the perpendicular distance of the wall
\* cell k cells away is k - 0.5 cells, the distance from the centre of the
\* player's cell to the face of the wall: 2.5 cells for k = 3.
C25_DistanceToFace ==
    /\ RayWalk
    /\ \A k \in 1 .. Max(MAP_W, MAP_H) :
           RayHitAt(k) => last.dist = k * UNIT - UNIT \div 2
    /\ RayHitAt(3) => 2 * last.dist = 5 * UNIT

\* C25: a ray along y has hit a wall cell 3 cells away.
C25_Witness ==
    /\ RayHitAt(3)
    /\ last.sy # 0
    /\ last.side = 1

(***************************************************************************)
(* The step specification: step_toward, called again and again for any     *)
(* living monster and a target on any side of it, on a new game whose      *)
(* first monster is dead.  last holds the monster and the target of the    *)
(* call.                                                                   *)
(***************************************************************************)
InitStep ==
    /\ variant \in Variants
    /\ \E b \in Start(variant) : g = [b EXCEPT !.mobs[1].alive = FALSE]
    /\ last = [op |-> "none", i |-> 0, tx |-> 0, ty |-> 0]
    /\ rots = 0

MobStep ==
    /\ \E i \in 1 .. Len(g.mobs), d \in (-1 .. 1) \X (-1 .. 1) :
          LET tx == g.mobs[i].x + d[1]
              ty == g.mobs[i].y + d[2]
          IN  /\ g.mobs[i].alive
              /\ g' = step_toward(g, i, tx, ty)
              /\ last' = [op |-> "step", i |-> i, tx |-> tx, ty |-> ty]
    /\ UNCHANGED <<variant, rots>>

NextStep == MobStep

SpecStep == InitStep /\ [][NextStep]_vars

\* Whether every living monster of m is on a floor cell of the grid.
LivingOnFloor(m) ==
    \A i \in 1 .. Len(m.mobs) :
        m.mobs[i].alive =>
            /\ <<m.mobs[i].x, m.mobs[i].y>> \in Cells
            /\ m.grid[<<m.mobs[i].x, m.mobs[i].y>>] = FLOOR

\* C26: every living monster is on a floor cell of the grid, always; and a
\* call of step_toward for the monster i changes nothing but i's cell,
\* each coordinate by one towards the target, and that exactly when the
\* destination is in bounds, is a floor cell, is not the player's cell and
\* is not the cell that another living monster holds at that moment;
\* otherwise the monster stays where it is.
C26_MonsterStep ==
    /\ []LivingOnFloor(g)
    /\ [][last'.op = "step" =>
           LET i == last'.i
               m == g.mobs[i]
               n == g'.mobs[i]
               c == <<m.x + Sign(last'.tx, m.x), m.y + Sign(last'.ty, m.y)>>
               free == /\ c \in Cells
                       /\ g.grid[c] = FLOOR
                       /\ c # <<g.player.x, g.player.y>>
                       /\ \A j \in 1 .. Len(g.mobs) :
                              (j # i /\ g.mobs[j].alive) =>
                                  <<g.mobs[j].x, g.mobs[j].y>> # c
           IN  /\ Abs(n.x - m.x) <= 1 /\ Abs(n.y - m.y) <= 1
               /\ <<n.x, n.y>> = (IF free THEN c ELSE <<m.x, m.y>>)
               /\ g' = [g EXCEPT !.mobs[i].x = n.x, !.mobs[i].y = n.y]]_vars

\* C26: a monster has just stepped onto its target cell and stands next to
\* another living monster, and a living monster is next to the player.
C26_Witness ==
    /\ last.op = "step"
    /\ \E j \in 1 .. Len(g.mobs) :
          /\ j # last.i /\ g.mobs[j].alive
          /\ Abs(g.mobs[j].x - g.mobs[last.i].x)
               + Abs(g.mobs[j].y - g.mobs[last.i].y) = 1
    /\ <<g.mobs[last.i].x, g.mobs[last.i].y>> = <<last.tx, last.ty>>
    /\ \E j \in 1 .. Len(g.mobs) : g.mobs[j].alive /\ dist2(g, j) = 1

(***************************************************************************)
(* The monster turn specification: one pass of ai_turn's loop, for the     *)
(* first monster of the collection.  The floor is the one of two rooms;    *)
(* the player is on any floor cell, the first monster, of any kind, on any *)
(* other and an orc on any other again.  last holds the draws and the cell *)
(* the monster started from.                                               *)
(***************************************************************************)
InitAi ==
    /\ variant \in Variants
    /\ \E b \in Start(variant), k \in Kinds, p \in Cells, c1 \in Cells, c2 \in Cells :
          /\ Len(b.rooms) = 2
          /\ b.grid[p] = FLOOR /\ b.grid[c1] = FLOOR /\ b.grid[c2] = FLOOR
          /\ c1 # p /\ c2 # p
          /\ g = [b EXCEPT !.player.x = p[1], !.player.y = p[2],
                           !.mobs = <<Entity(c1[1], c1[2], k),
                                      Entity(c2[1], c2[2], "orc")>>]
    /\ last = [op |-> "none", from |-> <<>>, dr |-> <<>>]
    /\ rots = 0

MobTurn ==
    /\ last.op = "none"
    /\ \E dr \in EnemyDraws :
          /\ g' = mob_turn(variant, g, 1, dr)
          /\ last' = [op |-> "mob_turn", from |-> <<g.mobs[1].x, g.mobs[1].y>>,
                      dr |-> dr]
    /\ UNCHANGED <<variant, rots>>

NextAi == MobTurn

SpecAi == InitAi /\ [][NextAi]_vars

\* How far the first monster is in g1 from where it is in g0, in steps.
Stepped(g0, g1) ==
    Max(Abs(g1.mobs[1].x - g0.mobs[1].x), Abs(g1.mobs[1].y - g0.mobs[1].y))

\* Whether the monster turn from g0 to g1 held an attack: the log has one
\* line more, that of enemy_attack_player.
Attacked(g0, g1) == Len(g1.log) = Len(g0.log) + 1

\* C27: in its turn a melee or runner monster attacks at most once, and
\* then it is at a distance <= 1.5 from the player; without an attack the
\* player's hp stays; a melee monster moves at most one step and not at all
\* when it attacks; a runner moves at most two steps, two only from a
\* distance > 2, and when it attacks after a step, that was its only step
\* and it started from a distance > 2; a monster that starts within 1.5
\* attacks where it is.  The Qt loop and the curses loop leave the same
\* Game.
C27_MeleeTurn ==
    [][(last'.op = "mob_turn" /\ g.mobs[1].ai \in {"melee", "runner"}) =>
        LET m == g.mobs[1]
            d2 == dist2(g, 1)
            n == Stepped(g, g')
            hit == Attacked(g, g')
        IN  /\ Len(g'.log) \in {Len(g.log), Len(g.log) + 1}
            /\ hit => 4 * dist2(g', 1) <= 9
            /\ ~hit => g'.player.hp = g.player.hp
            /\ 4 * d2 <= 9 => hit /\ n = 0
            /\ m.ai = "melee" => n <= 1 /\ ~(hit /\ n > 0)
            /\ m.ai = "runner" => /\ n <= 2
                                  /\ n = 2 => d2 > 4
                                  /\ (hit /\ n > 0) => n = 1 /\ d2 > 4
            /\ g' = mob_turn("qt", g, 1, last'.dr)
            /\ g' = mob_turn("curses", g, 1, last'.dr)]_vars

\* C27: a runner has attacked the player in the turn in which it stepped
\* next to the player.
C27_Witness ==
    /\ last.op = "mob_turn"
    /\ g.mobs[1].ai = "runner"
    /\ Len(g.log) = 2
    /\ g.log[2].t \in {"hits_you", "fend"}
    /\ Max(Abs(g.mobs[1].x - last.from[1]), Abs(g.mobs[1].y - last.from[2])) = 1
    /\ dist2(g, 1) = 1

\* C28: in its turn a ranged monster at the distance d from the player
\* attacks exactly when 1 < d <= range and no cell of the Bresenham line
\* strictly between it and the player is a wall, and then it stays where
\* it is; otherwise it makes the one call of step_toward, to the player's
\* offset mirrored through the monster when d < prefer and to the player
\* otherwise; at d = 1 it never attacks.
C28_RangedTurn ==
    [][(last'.op = "mob_turn" /\ g.mobs[1].ai = "ranged") =>
        LET m == g.mobs[1]
            p == <<g.player.x, g.player.y>>
            d2 == dist2(g, 1)
            clear == \A b \in Between(<<m.x, m.y>>, p) :
                         b \in Cells /\ g.grid[b] # WALL
            shoot == d2 > 1 /\ d2 <= m.range * m.range /\ clear
            hit == Attacked(g, g')
        IN  /\ hit <=> shoot
            /\ hit => Stepped(g, g') = 0
            /\ ~hit => g' = (IF d2 < m.prefer * m.prefer
                             THEN step_toward(g, 1, 2 * m.x - p[1], 2 * m.y - p[2])
                             ELSE step_toward(g, 1, p[1], p[2]))
            /\ Stepped(g, g') <= 1
            /\ d2 = 1 => ~hit]_vars

\* C28: a ranged monster that stood orthogonally next to the player has
\* stepped away from it without an attack.
C28_Witness ==
    /\ last.op = "mob_turn"
    /\ g.mobs[1].ai = "ranged"
    /\ Abs(last.from[1] - g.player.x) + Abs(last.from[2] - g.player.y) = 1
    /\ dist2(g, 1) = 4
    /\ Len(g.log) = 1

\* Whether the player of m stands on a floor cell of the grid that no
\* living monster holds.
PlayerCellFree(m) ==
    /\ <<m.player.x, m.player.y>> \in Cells
    /\ m.grid[<<m.player.x, m.player.y>>] = FLOOR
    /\ mob_at(m, <<m.player.x, m.player.y>>) = 0

\* C29: the player always stands on a floor cell of the grid that no living
\* monster holds, in the Game a new floor starts with as well; and a move
\* towards the cell of a living monster or towards a wall leaves the player
\* where it is.
C29_PlayerCell ==
    /\ [](PlayerCellFree(g) /\ \A m \in last.floor : PlayerCellFree(m))
    /\ [][(last'.op = "move" /\ last'.floor = {}
           /\ (\/ g.grid[Dest(last'.dx, last'.dy)] = WALL
               \/ mob_at(g, Dest(last'.dx, last'.dy)) # 0))
          => <<g'.player.x, g'.player.y>> = <<g.player.x, g.player.y>>]_vars

\* C29: the first handler of a game was a move to the left, where living
\* monsters stand: the player is still on the start cell and a living
\* monster on the cell left of it.
C29_Witness ==
    /\ last.op = "move" /\ last.dx = -1 /\ last.dy = 0
    /\ g.turn = 2 /\ g.depth = 1
    /\ <<g.player.x, g.player.y>> = StartA
    /\ mob_at(g, CellLeft) # 0

\* The floor cells of the grid that are reached from the cells seen through
\* orthogonally adjacent floor cells.
RECURSIVE Flood(_, _)
Flood(grid, seen) ==
    LET next == seen \cup
                {c \in Cells :
                    /\ grid[c] = FLOOR
                    /\ \E s \in seen : Abs(c[1] - s[1]) + Abs(c[2] - s[2]) = 1}
    IN  IF next = seen THEN seen ELSE Flood(grid, next)

\* C30: once make_map has accepted a room, and so when it returns, the
\* centre of the first room (the start cell) is a floor cell from which
\* every floor cell of the grid is reached through orthogonally adjacent
\* floor cells: the centre of every accepted room, and among them the
\* centre of the last one (the stairs cell).
C30_Connected ==
    g.rooms # <<>> =>
        LET start == center(g.rooms[1])
            reach == Flood(g.grid, {start})
        IN  /\ g.grid[start] = FLOOR
            /\ reach = {c \in Cells : g.grid[c] = FLOOR}
            /\ \A i \in 1 .. Len(g.rooms) : center(g.rooms[i]) \in reach

\* C30: make_map has returned with MAX_ROOMS rooms, the centre of the last
\* in another row and another column than the centre of the one before.
C30_Witness ==
    /\ g.n = MAX_ROOMS
    /\ Len(g.rooms) = MAX_ROOMS
    /\ center(g.rooms[Len(g.rooms)])[1] # center(g.rooms[Len(g.rooms) - 1])[1]
    /\ center(g.rooms[Len(g.rooms)])[2] # center(g.rooms[Len(g.rooms) - 1])[2]

(***************************************************************************)
(* The life specification: the second floor of a game, of one room, with   *)
(* NumMobs monsters of one kind of the depth's bag (the troll among them)  *)
(* on the cell left of the player.  The player moves to the left, striking *)
(* the first living monster there, or rests; the monsters take their turn  *)
(* at the end of each handler.  The game stops at the turn MaxLife.        *)
(***************************************************************************)
MaxLife == 5

LifeDraws ==
    {[map |-> [i \in 1 .. MAX_ROOMS |-> RoomA],
      items |-> [i \in 1 .. NumItems |-> <<CellUp>>],
      mobs |-> [i \in 1 .. NumMobs |-> [tries |-> <<CellLeft>>, kind |-> k]]] :
        k \in Kinds}

InitLife ==
    /\ variant \in Variants
    /\ \E b \in Start(variant) :
         LET g2 == push_log([b EXCEPT !.depth = @ + 1, !.turn = @ + 1],
                            Msg("descend", "", b.depth + 1))
         IN  /\ <<b.player.x, b.player.y>> = b.stairs
             /\ \E d \in floor_draws(variant, g2.depth, LifeDraws) :
                   g = new_floor(variant, g2, d)
    /\ last = [op |-> "none", dx |-> 0, dy |-> 0, floor |-> {}]
    /\ rots = 0

LifeMove ==
    /\ ~g.over /\ g.turn < MaxLife
    /\ \E o \in (IF variant = "qt"
                 THEN action_or_move(g, -1, 0, FloorDraws)
                 ELSE main_move(g, -1, 0, FloorDraws)) :
          /\ g' = o.post
          /\ last' = Op("move", -1, 0, g, o.mid)
    /\ UNCHANGED <<variant, rots>>

LifeRest ==
    /\ ~g.over /\ g.turn < MaxLife
    /\ \E o \in (IF variant = "qt" THEN on_rest(g) ELSE main_rest(g)) :
          /\ g' = o.post
          /\ last' = Op("rest", 0, 0, g, o.mid)
    /\ UNCHANGED <<variant, rots>>

NextLife == LifeMove \/ LifeRest

SpecLife == InitLife /\ [][NextLife]_vars

\* All the xp the player p has gained: the xp held and the thresholds paid
\* for the levels above the first.
TotalXp(p) == p.xp + LevelCost(1, p.level - 1)

\* C31: every monster is alive exactly when its hp is above 0, and its hp
\* is at most its max hp.  In a handler a dead monster stays dead and as it
\* was; a monster dies only in a move, the one monster the player struck;
\* the player gains the xp of the monster that died in the handler, and no
\* xp in a handler in which none died.  A living monster that the player
\* did not bring down has, after its turn, regen more hp (capped at max hp)
\* than the strike left it if it has a nonzero regen and 0 < hp < max hp,
\* and the hp the strike left it otherwise.
C31_MonsterLife ==
    /\ [](\A i \in 1 .. Len(g.mobs) :
              /\ g.mobs[i].alive <=> g.mobs[i].hp > 0
              /\ g.mobs[i].hp <= g.mobs[i].max_hp)
    /\ [][(last'.op \in {"move", "rest"} /\ last'.floor = {}) =>
           LET deaths == {i \in 1 .. Len(g.mobs) :
                             g.mobs[i].alive /\ ~g'.mobs[i].alive}
               healed(m, h) == IF m.regen # 0 /\ 0 < h /\ h < m.max_hp
                               THEN Min(m.max_hp, h + m.regen) ELSE h
           IN  /\ Len(g'.mobs) = Len(g.mobs)
               /\ Cardinality(deaths) <= 1
               /\ deaths # {} => last'.op = "move"
               /\ \A i \in 1 .. Len(g.mobs) :
                      /\ ~g.mobs[i].alive => g'.mobs[i] = g.mobs[i]
                      /\ g'.mobs[i].alive =>
                            \E h \in 1 .. g.mobs[i].hp :
                               /\ last'.op = "rest" => h = g.mobs[i].hp
                               /\ g'.mobs[i].hp = healed(g.mobs[i], h)
               /\ \A i \in deaths :
                      TotalXp(g'.player) = TotalXp(g.player) + g.mobs[i].xp
               /\ deaths = {} => TotalXp(g'.player) = TotalXp(g.player)]_vars

\* C31: the player's third strike has killed the first troll, which had
\* regenerated after each of the two strikes before (11 and 9 hp of damage,
\* then 9: without the two regenerations its hp would be 2 less), and has
\* brought the player its xp.
C31_Witness ==
    /\ last.op = "move"
    /\ g.mobs[1].name = "troll"
    /\ ~g.mobs[1].alive
    /\ g.mobs[1].hp = g.mobs[1].max_hp - 29 + 2 * g.mobs[1].regen
    /\ TotalXp(g.player) = g.mobs[1].xp
    /\ g.mobs[2].alive /\ g.mobs[2].hp = g.mobs[2].max_hp

(***************************************************************************)
(* The border specification: make_map's loop, one room draw at a time over *)
(* every draw as in SpecMap, and then the game played, with the handlers   *)
(* of Spec, on the finished maps that are the maps of MapDraws.            *)
(***************************************************************************)
BorderRoom ==
    /\ "n" \in DOMAIN g
    /\ MakeRoom

BorderEnter ==
    /\ "n" \in DOMAIN g
    /\ g.n = MAX_ROOMS
    /\ \E b \in Start(variant) :
          /\ b.grid = g.grid
          /\ b.rooms = g.rooms
          /\ g' = b
          /\ last' = Op("new", 0, 0, b, b)
    /\ UNCHANGED <<variant, rots>>

BorderPlay ==
    /\ "player" \in DOMAIN g
    /\ Next

NextBorder == BorderRoom \/ BorderEnter \/ BorderPlay

SpecBorder == InitMap /\ [][NextBorder]_vars

\* The cells of the outermost rows and columns of the grid.
Border == {c \in Cells : c[1] \in {0, MAP_W - 1} \/ c[2] \in {0, MAP_H - 1}}

\* C32: while and after the rooms and corridors are carved every cell of
\* the outermost rows and columns is a wall.  In the game the player, the
\* monsters, the items and the stairs are not on such a cell, so for every
\* direction the clamp of try_move_player leaves the player's destination
\* as it is and every cell that step_toward can step a monster to is in
\* bounds: neither rejects a move.
C32_WallMargin ==
    /\ \A c \in Border : g.grid[c] = WALL
    /\ "player" \in DOMAIN g =>
          /\ <<g.player.x, g.player.y>> \notin Border
          /\ g.stairs \notin Border
          /\ \A i \in 1 .. Len(g.items) :
                 <<g.items[i][1], g.items[i][2]>> \notin Border
          /\ \A i \in 1 .. Len(g.mobs) :
                 /\ <<g.mobs[i].x, g.mobs[i].y>> \notin Border
                 /\ \A d \in (-1 .. 1) \X (-1 .. 1) :
                        in_bounds(g.mobs[i].x + d[1], g.mobs[i].y + d[2])
          /\ \A d \in Dirs \cup {<<0, 0>>} :
                 /\ Max(0, Min(MAP_W - 1, g.player.x + d[1])) = g.player.x + d[1]
                 /\ Max(0, Min(MAP_H - 1, g.player.y + d[2])) = g.player.y + d[2]

\* C32: after a move to the left the player is on the cell (1, 1), with the
\* border beside and above it, and a living monster is in column 1 as
\* well; the map has two rooms and a corridor.
C32_Witness ==
    /\ "player" \in DOMAIN g
    /\ last.op = "move" /\ last.dx = -1 /\ last.dy = 0
    /\ <<g.player.x, g.player.y>> = <<1, 1>>
    /\ Len(g.rooms) = 2
    /\ \E i \in 1 .. Len(g.mobs) : g.mobs[i].alive /\ g.mobs[i].x = 1

(***************************************************************************)
(* The pickup specification: try_move_player in every direction and        *)
(* use_potion, on the floor of a new game whose items are NumItems + 1     *)
(* potions on the two free cells beside the start, two of them on one cell *)
(* or not, and whose monsters are one orc left of the start, until the     *)
(* player has descended.  last.quaffed counts the                          *)
(* potions quaffed on the floor and last.total is the potions held plus    *)
(* the items of the floor when the player entered it.                      *)
(***************************************************************************)
\* The items that spawn_mobs_items appends for the accepted cells cs.
ItemsOn(cs) == [i \in 1 .. Len(cs) |-> <<cs[i][1], cs[i][2], "potion">>]

InitPickup ==
    /\ variant \in Variants
    /\ \E b \in Start(variant), cs \in [1 .. NumItems + 1 -> {CellUp, CellDiag}] :
          /\ g = [b EXCEPT !.items = ItemsOn(cs),
                            !.mobs = <<Entity(CellLeft[1], CellLeft[2], "orc")>>]
          /\ last = [op |-> "none", dx |-> 0, dy |-> 0, floor |-> {},
                     quaffed |-> 0, total |-> b.player.potions + Len(cs)]
    /\ rots = 0

PickupMove ==
    /\ g.depth = 1
    /\ \E d \in Dirs \cup {<<0, 0>>} :
         \E m \in try_move_player(variant, g, d[1], d[2], FloorDraws) :
            /\ g' = m
            /\ last' = [op |-> "try_move", dx |-> d[1], dy |-> d[2],
                        floor |-> IF m.depth # g.depth THEN {m} ELSE {},
                        quaffed |-> IF m.depth # g.depth THEN 0 ELSE last.quaffed,
                        total |-> IF m.depth # g.depth
                                  THEN m.player.potions + Len(m.items)
                                  ELSE last.total]
    /\ UNCHANGED <<variant, rots>>

PickupQuaff ==
    /\ g.depth = 1
    /\ g' = use_potion(g)
    /\ last' = [last EXCEPT !.op = "potion", !.dx = 0, !.dy = 0, !.floor = {},
                            !.quaffed = IF g.player.potions > 0 THEN @ + 1 ELSE @]
    /\ UNCHANGED <<variant, rots>>

NextPickup == PickupMove \/ PickupQuaff

SpecPickup == InitPickup /\ [][NextPickup]_vars

\* C33: a call of try_move_player that brings the player onto a cell with
\* one or more potions (the cell aimed at is no wall and no living monster
\* is on it) removes exactly one item, one of that cell, from the items,
\* which are otherwise as they were, and raises the potions held by exactly
\* 1; every other call leaves the potions held as they were and, unless it
\* is a descent, the items too.  On one floor the potions held plus the
\* items on the floor plus the potions quaffed are what the potions held
\* plus the items were when the player entered the floor.
C33_Pickup ==
    /\ [](g.player.potions + Len(g.items) + last.quaffed = last.total)
    /\ [][last'.op = "try_move" =>
           LET c == Dest(last'.dx, last'.dy)
               arrives == /\ g.grid[c] # WALL
                          /\ \A i \in 1 .. Len(g.mobs) :
                                 ~(/\ g.mobs[i].alive
                                   /\ <<g.mobs[i].x, g.mobs[i].y>> = c)
               here == {i \in 1 .. Len(g.items) :
                           <<g.items[i][1], g.items[i][2]>> = c}
           IN  IF arrives /\ here # {}
               THEN /\ g'.player.potions = g.player.potions + 1
                    /\ \E i \in here : g'.items = RemoveAt(g.items, i)
                    /\ <<g'.player.x, g'.player.y>> = c
               ELSE /\ g'.player.potions = g.player.potions
                    /\ last'.floor = {} => g'.items = g.items]_vars

\* C33: the player has moved onto a cell with two potions and holds one of
\* them; the other is still on the cell.
C33_Witness ==
    /\ last.op = "try_move" /\ <<last.dx, last.dy>> # <<0, 0>>
    /\ g.player.potions = 1
    /\ last.quaffed = 0
    /\ Len(g.items) = NumItems
    /\ \E i \in 1 .. Len(g.items) :
           <<g.items[i][1], g.items[i][2]>> = <<g.player.x, g.player.y>>

\* C34: in the Qt front end, whenever a handler has returned (new game,
\* move, attack, wait, rest, quaff, rotate, with or without a floor
\* transition or the end of the game), the stored visible set is the field
\* of view computed from the player's cell on the grid of the Game, and it
\* is a subset of explored.
C34_SnapshotConsistent ==
    variant = "qt" =>
        /\ g.visible = fov("qt", g.player.x, g.player.y, g.grid)
        /\ g.visible \subseteq g.explored

\* C34: the Qt player has moved off the start cell of the first floor, the
\* visible set holds the player's cell, and explored holds a cell that is
\* no longer in the field of view.
C34_Witness ==
    /\ variant = "qt"
    /\ last.op = "move" /\ last.floor = {}
    /\ <<g.player.x, g.player.y>> # center(g.rooms[1])
    /\ <<g.player.x, g.player.y>> \in g.visible
    /\ g.explored \ fov("qt", g.player.x, g.player.y, g.grid) # {}

====
